---- MODULE Spec2Model ----
(***************************************************************************)
(* License-management backend (src/index.js): the validate / register      *)
(* handlers, the admin actions that create, delete and reset licenses,     *)
(* and the document store they read and write.                             *)
(*                                                                         *)
(* Every handler is an async function; between two awaits it runs without  *)
(* interruption, so each action below is one store access (the awaited     *)
(* call) together with the synchronous code that follows it up to the      *)
(* next await.  Several requests may be in flight at once (one per slot).  *)
(***************************************************************************)
EXTENDS Integers, Sequences, FiniteSets, Bags, TLC

\* ---------------------------------------------------------------- bounds
MaxTime == 2        \* the clock runs 1..MaxTime
MaxRequests == 2    \* requests received in one behaviour, requests overlapping
MaxSeqRequests == 2 \* requests received in one behaviour, one request at a time
MaxScenarioRequests == 6 \* requests of the binding scenario: the creation and five API calls
MaxFaultRequests == 2 \* requests received in one behaviour, store accesses may fail
MaxLiveRequests == 1 \* requests received in one behaviour, under fair scheduling
MaxBanRequests == 3 \* requests received in one behaviour, ban list requests overlapping
MaxBanSeqRequests == 3 \* requests received in one behaviour, ban list requests one at a time
MaxResetRequests == 3 \* requests received in one behaviour, reset requests and their resolution
MaxClientRequests == 2 \* requests received in one behaviour, client endpoints
MaxExpiryRequests == 3 \* requests received in one behaviour, one key deleted and created again
MaxSettingsRequests == 2 \* requests received in one behaviour, every kind of settings record
MaxBulkRequests == 1 \* bulk-generate requests received in one behaviour
MaxAdminRequests == 4 \* requests received in one behaviour that starts with nobody logged in

\* ---------------------------------------------------------------- inputs
Keys == {"K1", "K2"}
HWIDs == {"H1", "H2"}
Slots == {"r1", "r2"}
ADMIN_USERNAME == "admin"

\* An optional value: None is null / '' / a field that is absent.
None == <<>>
Some(x) == <<x>>

Times == 1..MaxTime
\* expiry dates an admin may enter: none, or a date the clock can pass
Expiries == {None} \cup {Some(t) : t \in 1..(MaxTime - 1)}

VARIABLES
    licenses,     \* collection 'licenses': key -> document (DOMAIN = existing keys)
    banlist,      \* document settings/banlist, field hwids (an array)
    settings,     \* document settings/general: None, or Some([apiEnabled |-> ...])
    hwidRequests, \* collection 'hwidRequests': set of documents with their ids
    activityLog,  \* collection 'activityLog': bag of entries
    session,      \* req.session.user of the admin browser session
    now,          \* the clock (new Date())
    nreq,         \* number of requests received so far
    req           \* the requests in flight, one per slot

vars == <<licenses, banlist, settings, hwidRequests, activityLog, session, now, nreq, req>>
store == <<licenses, banlist, settings, hwidRequests, activityLog>>

\* ---------------------------------------------------------------- store helpers
\* getLicense: doc.exists ? doc.data() : null
getLicense(licenseKey) ==
    IF licenseKey \in DOMAIN licenses THEN Some(licenses[licenseKey]) ELSE None

\* Firestore set(data, {merge: true}): every field present in data replaces
\* the stored field, fields absent from data keep their stored value, and a
\* missing document is created.  The only field a handler's data may lack
\* is lastValidated.
MergeDoc(old, data) ==
    IF old = None THEN data
    ELSE [data EXCEPT !.lastValidated =
            IF data.lastValidated = None THEN old[1].lastValidated ELSE @]

\* saveLicense: db.collection('licenses').doc(licenseKey).set(data, {merge: true})
saveLicense(licenseKey, data) ==
    licenses' = [k \in DOMAIN licenses \cup {licenseKey} |->
                    IF k = licenseKey THEN MergeDoc(getLicense(licenseKey), data)
                    ELSE licenses[k]]

\* deleteLicense: db.collection('licenses').doc(licenseKey).delete()
deleteLicense(licenseKey) ==
    licenses' = [k \in DOMAIN licenses \ {licenseKey} |-> licenses[k]]

\* getSettings: the stored document, or the defaults when there is none
DefaultSettings == [apiEnabled |-> Some(TRUE)]
getSettings == IF settings = None THEN DefaultSettings ELSE settings[1]

\* variant: tests that the flag is present instead of testing its value
ApiEnabled_Present(s) == s.apiEnabled # None

\* if (!settings.apiEnabled) return res.send('API_DISABLED')
ApiEnabled(s) == s.apiEnabled = Some(TRUE)

\* logActivity: db.collection('activityLog').add({action, details, ...})
logActivity(action, licenseKey, hwid) ==
    activityLog' = activityLog (+) SetToBag({[action |-> action, license |-> licenseKey,
                                             hwid |-> hwid]})

\* ---------------------------------------------------------------- utility functions
\* variant: expired from the moment of the expiry on (new Date() >= new Date(license.expiry))
isLicenseExpired_AtExpiry(license, t) ==
    IF license.expiry = None THEN FALSE ELSE t >= license.expiry[1]

\* if (!license.expiry) return false; return new Date() > new Date(license.expiry)
isLicenseExpired(license, t) ==
    IF license.expiry = None THEN FALSE ELSE t > license.expiry[1]

\* variant: banlist.indexOf(hwid) > 0, which misses the first element
isHWIDBanned_IndexOf(hwid, list) == \E i \in 2..Len(list) : list[i] = hwid

\* isHWIDBanned: banlist.includes(hwid)
isHWIDBanned(hwid, list) == \E i \in 1..Len(list) : list[i] = hwid

\* ---------------------------------------------------------------- requests
IdleReq == [op |-> "", key |-> "", hwid |-> "", id |-> 0, expiry |-> None, pc |-> "idle",
            lic |-> None, resp |-> "", fault |-> "", list |-> <<>>, count |-> 0,
            username |-> "", password |-> ""]

Free(r) == req[r].pc \in {"idle", "done"}
FirstFree(r) == Free(r) /\ (r = "r2" => ~Free("r1"))

\* a request arrives in slot r
Arrive(r, request) ==
    /\ FirstFree(r)
    /\ nreq' = nreq + 1
    /\ req' = [req EXCEPT ![r] = request]

Begin(r, op, k, h, id, pc, resp) ==
    Arrive(r, [IdleReq EXCEPT !.op = op, !.key = k, !.hwid = h, !.id = id,
                              !.pc = pc, !.resp = resp])

Goto(r, pc) == req' = [req EXCEPT ![r].pc = pc]
Respond(r, out) == req' = [req EXCEPT ![r].pc = "done", ![r].resp = out, ![r].lic = None]

At(r, op, pc) == req[r].op = op /\ req[r].pc = pc

\* ---------------------------------------------------------------- GET /api/validate
\* variant: only the license key is required (if (!license) return res.send('FAILED'))
ValidateStart_KeyOnly(r, k, h) ==
    /\ IF k = ""
         THEN Begin(r, "validate", k, h, 0, "done", "FAILED")
         ELSE Begin(r, "validate", k, h, 0, "log", "")
    /\ UNCHANGED <<store, session, now>>

\* const { license, hwid } = req.query; if (!license || !hwid) return res.send('FAILED')
ValidateStart(r, k, h) ==
    /\ IF k = "" \/ h = ""
         THEN Begin(r, "validate", k, h, 0, "done", "FAILED")
         ELSE Begin(r, "validate", k, h, 0, "log", "")
    /\ UNCHANGED <<store, session, now>>

\* await logActivity('API_VALIDATE', ...)
ValidateLog(r) ==
    /\ At(r, "validate", "log")
    /\ logActivity("API_VALIDATE", req[r].key, req[r].hwid)
    /\ Goto(r, "settings")
    /\ UNCHANGED <<licenses, banlist, settings, hwidRequests, session, now, nreq>>

\* const settings = await getSettings(); if (!settings.apiEnabled) ...
ValidateSettings(r) ==
    /\ At(r, "validate", "settings")
    /\ IF ApiEnabled(getSettings) THEN Goto(r, "banlist") ELSE Respond(r, "API_DISABLED")
    /\ UNCHANGED <<store, session, now, nreq>>

\* const banlist = await getBanlist(); if (isHWIDBanned(hwid, banlist)) ...
ValidateBanlist(r) ==
    /\ At(r, "validate", "banlist")
    /\ IF isHWIDBanned(req[r].hwid, banlist) THEN Respond(r, "BANNED") ELSE Goto(r, "getLicense")
    /\ UNCHANGED <<store, session, now, nreq>>

\* the data validate writes: { ...lic, lastValidated: new Date().toISOString() }
ValidateUpdate(lic, t) == [lic EXCEPT !.lastValidated = Some(t)]

\* variant: an unbound record validates (!lic.hwid || lic.hwid === hwid)
ValidateDecide_Unbound(lic, hwid, t) ==
    IF lic = None THEN "INVALID_LICENSE"
    ELSE IF isLicenseExpired(lic[1], t) THEN "EXPIRED"
    ELSE IF lic[1].hwid = "" \/ lic[1].hwid = hwid THEN "VALID"
    ELSE "HWID_MISMATCH"

\* the outcome validate decides from the record it read
ValidateDecide(lic, hwid, t) ==
    IF lic = None THEN "INVALID_LICENSE"
    ELSE IF isLicenseExpired(lic[1], t) THEN "EXPIRED"
    ELSE IF lic[1].hwid = hwid THEN "VALID"
    ELSE "HWID_MISMATCH"

\* variant: the validation stamp is written as soon as the record is read,
\* before the checks
ValidateLicense_StampFirst(r) ==
    /\ At(r, "validate", "getLicense")
    /\ LET lic == getLicense(req[r].key)
           out == ValidateDecide(lic, req[r].hwid, now)
       IN  /\ IF out = "VALID"
                THEN req' = [req EXCEPT ![r].pc = "save",
                                        ![r].lic = Some(ValidateUpdate(lic[1], now))]
                ELSE Respond(r, out)
           /\ IF lic # None
                THEN saveLicense(req[r].key, ValidateUpdate(lic[1], now))
                ELSE UNCHANGED licenses
    /\ UNCHANGED <<banlist, settings, hwidRequests, activityLog, session, now, nreq>>

\* const lic = await getLicense(license); ... the checks up to saveLicense
ValidateLicense(r) ==
    /\ At(r, "validate", "getLicense")
    /\ LET lic == getLicense(req[r].key)
           out == ValidateDecide(lic, req[r].hwid, now)
       IN  IF out = "VALID"
             THEN req' = [req EXCEPT ![r].pc = "save",
                                     ![r].lic = Some(ValidateUpdate(lic[1], now))]
             ELSE Respond(r, out)
    /\ UNCHANGED <<store, session, now, nreq>>

\* await saveLicense(license, {...}); return res.send('VALID')
ValidateSave(r) ==
    /\ At(r, "validate", "save")
    /\ saveLicense(req[r].key, req[r].lic[1])
    /\ Respond(r, "VALID")
    /\ UNCHANGED <<banlist, settings, hwidRequests, activityLog, session, now, nreq>>

\* ---------------------------------------------------------------- GET /api/register
RegisterStart(r, k, h) ==
    /\ IF k = "" \/ h = ""
         THEN Begin(r, "register", k, h, 0, "done", "FAILED")
         ELSE Begin(r, "register", k, h, 0, "log", "")
    /\ UNCHANGED <<store, session, now>>

RegisterLog(r) ==
    /\ At(r, "register", "log")
    /\ logActivity("API_REGISTER", req[r].key, req[r].hwid)
    /\ Goto(r, "settings")
    /\ UNCHANGED <<licenses, banlist, settings, hwidRequests, session, now, nreq>>

RegisterSettings(r) ==
    /\ At(r, "register", "settings")
    /\ IF ApiEnabled(getSettings) THEN Goto(r, "banlist") ELSE Respond(r, "API_DISABLED")
    /\ UNCHANGED <<store, session, now, nreq>>

RegisterBanlist(r) ==
    /\ At(r, "register", "banlist")
    /\ IF isHWIDBanned(req[r].hwid, banlist) THEN Respond(r, "BANNED") ELSE Goto(r, "getLicense")
    /\ UNCHANGED <<store, session, now, nreq>>

\* variant: any bound record is refused (if (lic.hwid) return 'ALREADY_REGISTERED')
RegisterDecide_AnyBinding(lic, hwid, t) ==
    IF lic = None THEN "INVALID_LICENSE"
    ELSE IF isLicenseExpired(lic[1], t) THEN "EXPIRED"
    ELSE IF lic[1].hwid # "" THEN "ALREADY_REGISTERED"
    ELSE "SCAN"

\* variant: the binding check made before the expiry check
RegisterDecide_BindingFirst(lic, hwid, t) ==
    IF lic = None THEN "INVALID_LICENSE"
    ELSE IF lic[1].hwid # "" /\ lic[1].hwid # hwid THEN "ALREADY_REGISTERED"
    ELSE IF isLicenseExpired(lic[1], t) THEN "EXPIRED"
    ELSE "SCAN"

\* variant: no binding check, the scan alone decides
RegisterDecide_NoBinding(lic, hwid, t) ==
    IF lic = None THEN "INVALID_LICENSE"
    ELSE IF isLicenseExpired(lic[1], t) THEN "EXPIRED"
    ELSE "SCAN"

\* the checks register makes on the record it read, before the scan
RegisterDecide(lic, hwid, t) ==
    IF lic = None THEN "INVALID_LICENSE"
    ELSE IF isLicenseExpired(lic[1], t) THEN "EXPIRED"
    ELSE IF lic[1].hwid # "" /\ lic[1].hwid # hwid THEN "ALREADY_REGISTERED"
    ELSE "SCAN"

RegisterLicense(r) ==
    /\ At(r, "register", "getLicense")
    /\ LET lic == getLicense(req[r].key)
           out == RegisterDecide(lic, req[r].hwid, now)
       IN  IF out = "SCAN"
             THEN req' = [req EXCEPT ![r].pc = "scan", ![r].lic = lic]
             ELSE Respond(r, out)
    /\ UNCHANGED <<store, session, now, nreq>>

\* variant: compares the stored hwid with the license key (licData.hwid === license)
HwidInUse_WrongName(allLicenses, licenseKey, hwid) ==
    \E licKey \in DOMAIN allLicenses :
        allLicenses[licKey].hwid = licenseKey /\ licKey # hwid

\* for (const [licKey, licData] of Object.entries(allLicenses))
\*     if (licData.hwid === hwid && licKey !== license) return res.send('HWID_IN_USE')
HwidInUse(allLicenses, licenseKey, hwid) ==
    \E licKey \in DOMAIN allLicenses :
        allLicenses[licKey].hwid = hwid /\ licKey # licenseKey

\* variant: the history is started anew (history: [entry]) instead of extended
RegisterUpdate_NewHistory(lic, hwid, t) ==
    [lic EXCEPT !.hwid = hwid,
                !.activatedAt = Some(t),
                !.lastValidated = Some(t),
                !.history = <<[action |-> "REGISTER", details |-> hwid]>>]

\* variant: the record is stamped and its history extended, the hwid left as read
RegisterUpdate_KeepHwid(lic, hwid, t) ==
    [lic EXCEPT !.activatedAt = Some(t),
                !.lastValidated = Some(t),
                !.history = Append(@, [action |-> "REGISTER", details |-> hwid])]

\* updatedLic = { ...lic, hwid, activatedAt, lastValidated, history: [...history, REGISTER] }
RegisterUpdate(lic, hwid, t) ==
    [lic EXCEPT !.hwid = hwid,
                !.activatedAt = Some(t),
                !.lastValidated = Some(t),
                !.history = Append(@, [action |-> "REGISTER", details |-> hwid])]

\* const allLicenses = await getLicenses(); the loop; building updatedLic
\* variant: the loop that finds the hwid on another license returns without an answer
RegisterScan_NoReply(r) ==
    /\ At(r, "register", "scan")
    /\ IF HwidInUse(licenses, req[r].key, req[r].hwid)
         THEN UNCHANGED req
         ELSE req' = [req EXCEPT ![r].pc = "save",
                                 ![r].lic = Some(RegisterUpdate(req[r].lic[1], req[r].hwid, now))]
    /\ UNCHANGED <<store, session, now, nreq>>

RegisterScan(r) ==
    /\ At(r, "register", "scan")
    /\ IF HwidInUse(licenses, req[r].key, req[r].hwid)
         THEN Respond(r, "HWID_IN_USE")
         ELSE req' = [req EXCEPT ![r].pc = "save",
                                 ![r].lic = Some(RegisterUpdate(req[r].lic[1], req[r].hwid, now))]
    /\ UNCHANGED <<store, session, now, nreq>>

\* variant: the write is conditional on the hwid still being free when it is applied
RegisterSave_Conditional(r) ==
    /\ At(r, "register", "save")
    /\ IF HwidInUse(licenses, req[r].key, req[r].hwid)
         THEN Respond(r, "HWID_IN_USE") /\ UNCHANGED licenses
         ELSE saveLicense(req[r].key, req[r].lic[1]) /\ Respond(r, "SUCCESS")
    /\ UNCHANGED <<banlist, settings, hwidRequests, activityLog, session, now, nreq>>

\* await saveLicense(license, updatedLic); return res.send('SUCCESS')
RegisterSave(r) ==
    /\ At(r, "register", "save")
    /\ saveLicense(req[r].key, req[r].lic[1])
    /\ Respond(r, "SUCCESS")
    /\ UNCHANGED <<banlist, settings, hwidRequests, activityLog, session, now, nreq>>

\* ---------------------------------------------------------------- admin actions
\* variant: the middleware lets every request through
requireLogin_Always == TRUE

\* requireLogin: req.session && req.session.user === CONFIG.ADMIN_USERNAME
requireLogin == session = ADMIN_USERNAME

\* licenseData of generate-license
NewLicense(expiry, t) ==
    [hwid |-> "", activatedAt |-> None, lastValidated |-> None, expiry |-> expiry,
     history |-> <<>>, createdAt |-> t, createdBy |-> ADMIN_USERNAME]

\* POST /admin/generate-license: the key is req.body.license or a generated one
GenerateStart(r, k, e) ==
    /\ IF requireLogin
         THEN Arrive(r, [IdleReq EXCEPT !.op = "generate", !.key = k, !.expiry = e,
                                        !.pc = "getLicense"])
         ELSE Begin(r, "generate", k, "", 0, "done", "LOGIN")
    /\ UNCHANGED <<store, session, now>>

\* const existingLicense = await getLicense(license); if (existingLicense) return ...
GenerateLicense(r) ==
    /\ At(r, "generate", "getLicense")
    /\ IF getLicense(req[r].key) # None
         THEN Respond(r, "EXISTS")
         ELSE req' = [req EXCEPT ![r].pc = "save",
                                 ![r].lic = Some(NewLicense(req[r].expiry, now))]
    /\ UNCHANGED <<store, session, now, nreq>>

\* await saveLicense(license, licenseData)
GenerateSave(r) ==
    /\ At(r, "generate", "save")
    /\ saveLicense(req[r].key, req[r].lic[1])
    /\ Goto(r, "log")
    /\ UNCHANGED <<banlist, settings, hwidRequests, activityLog, session, now, nreq>>

\* await logActivity('LICENSE_GENERATED', ...); res.redirect('/admin')
GenerateLog(r) ==
    /\ At(r, "generate", "log")
    /\ logActivity("LICENSE_GENERATED", req[r].key, "")
    /\ Respond(r, "REDIRECT")
    /\ UNCHANGED <<licenses, banlist, settings, hwidRequests, session, now, nreq>>

\* POST /admin/delete-license
DeleteStart(r, k) ==
    /\ IF requireLogin
         THEN Begin(r, "delete", k, "", 0, "delete", "")
         ELSE Begin(r, "delete", k, "", 0, "done", "LOGIN")
    /\ UNCHANGED <<store, session, now>>

\* await deleteLicense(license)
DeleteLicense(r) ==
    /\ At(r, "delete", "delete")
    /\ deleteLicense(req[r].key)
    /\ Goto(r, "log")
    /\ UNCHANGED <<banlist, settings, hwidRequests, activityLog, session, now, nreq>>

\* await logActivity('LICENSE_DELETED', ...); res.redirect('/admin')
DeleteLog(r) ==
    /\ At(r, "delete", "log")
    /\ logActivity("LICENSE_DELETED", req[r].key, "")
    /\ Respond(r, "REDIRECT")
    /\ UNCHANGED <<licenses, banlist, settings, hwidRequests, session, now, nreq>>

\* variant: the reset records itself in the history and leaves the hwid
ResetUpdate_KeepHwid(lic, action, user) ==
    [lic EXCEPT !.activatedAt = None,
                !.history = Append(@, [action |-> action, details |-> user])]

\* updatedLic of reset-hwid and approve-hwid-reset:
\* { ...lic, hwid: '', activatedAt: '', history: [...history, {action, admin}] }
ResetUpdate(lic, action, user) ==
    [lic EXCEPT !.hwid = "",
                !.activatedAt = None,
                !.history = Append(@, [action |-> action, details |-> user])]

\* POST /admin/reset-hwid
ResetStart(r, k) ==
    /\ IF requireLogin
         THEN Begin(r, "reset", k, "", 0, "getLicense", "")
         ELSE Begin(r, "reset", k, "", 0, "done", "LOGIN")
    /\ UNCHANGED <<store, session, now>>

\* const lic = await getLicense(license); if (lic) { updatedLic = ... } else res.redirect
ResetLicense(r) ==
    /\ At(r, "reset", "getLicense")
    /\ LET lic == getLicense(req[r].key)
       IN  IF lic # None
             THEN req' = [req EXCEPT ![r].pc = "save",
                            ![r].lic = Some(ResetUpdate(lic[1], "HWID_RESET_BY_ADMIN", session))]
             ELSE Respond(r, "REDIRECT")
    /\ UNCHANGED <<store, session, now, nreq>>

\* await saveLicense(license, updatedLic)
ResetSave(r) ==
    /\ At(r, "reset", "save")
    /\ saveLicense(req[r].key, req[r].lic[1])
    /\ Goto(r, "log")
    /\ UNCHANGED <<banlist, settings, hwidRequests, activityLog, session, now, nreq>>

\* await logActivity('HWID_RESET', ...); res.redirect('/admin')
ResetLog(r) ==
    /\ At(r, "reset", "log")
    /\ logActivity("HWID_RESET", req[r].key, "")
    /\ Respond(r, "REDIRECT")
    /\ UNCHANGED <<licenses, banlist, settings, hwidRequests, session, now, nreq>>

\* variant: the entry is kept and marked (update({ status: 'resolved' }))
deleteHwidRequest_Resolve(requestId) ==
    hwidRequests' = {IF q.id = requestId THEN [q EXCEPT !.status = "resolved"] ELSE q :
                        q \in hwidRequests}

\* deleteHwidRequest: db.collection('hwidRequests').doc(requestId).delete()
deleteHwidRequest(requestId) ==
    hwidRequests' = {q \in hwidRequests : q.id # requestId}

\* the request ids an admin form may post: those of the stored requests, or
\* one that names no stored request (0)
RequestIds == {q.id : q \in hwidRequests} \cup {0}

\* POST /admin/approve-hwid-reset: const { requestId, license } = req.body
ApproveStart(r, id, k) ==
    /\ IF requireLogin
         THEN Begin(r, "approve", k, "", id, "getLicense", "")
         ELSE Begin(r, "approve", k, "", id, "done", "LOGIN")
    /\ UNCHANGED <<store, session, now>>

\* const lic = await getLicense(license); if (lic) { updatedLic = ... }
ApproveLicense(r) ==
    /\ At(r, "approve", "getLicense")
    /\ LET lic == getLicense(req[r].key)
       IN  IF lic # None
             THEN req' = [req EXCEPT ![r].pc = "save",
                            ![r].lic = Some(ResetUpdate(lic[1], "HWID_RESET_APPROVED", session))]
             ELSE Goto(r, "deleteRequest")
    /\ UNCHANGED <<store, session, now, nreq>>

\* await saveLicense(license, updatedLic)
ApproveSave(r) ==
    /\ At(r, "approve", "save")
    /\ saveLicense(req[r].key, req[r].lic[1])
    /\ req' = [req EXCEPT ![r].pc = "log", ![r].lic = None]
    /\ UNCHANGED <<banlist, settings, hwidRequests, activityLog, session, now, nreq>>

\* await logActivity('HWID_RESET_APPROVED', ...)
ApproveLog(r) ==
    /\ At(r, "approve", "log")
    /\ logActivity("HWID_RESET_APPROVED", req[r].key, "")
    /\ Goto(r, "deleteRequest")
    /\ UNCHANGED <<licenses, banlist, settings, hwidRequests, session, now, nreq>>

\* await deleteHwidRequest(requestId); res.redirect('/admin')
ApproveDelete(r) ==
    /\ At(r, "approve", "deleteRequest")
    /\ deleteHwidRequest(req[r].id)
    /\ Respond(r, "REDIRECT")
    /\ UNCHANGED <<licenses, banlist, settings, activityLog, session, now, nreq>>

\* ---------------------------------------------------------------- the clock
Tick ==
    /\ now < MaxTime
    /\ now' = now + 1
    /\ UNCHANGED <<store, session, nreq, req>>

\* ---------------------------------------------------------------- initial states
\* A store the program can have built before the behaviour starts: licenses
\* as generate-license creates them, K1 possibly registered to H1 since.
FreshLicenses == {NewLicense(e, 1) : e \in Expiries}
BoundLicenses == {RegisterUpdate(l, "H1", 1) : l \in FreshLicenses}

InitLicenses ==
    {f \in UNION {[D -> FreshLicenses \cup BoundLicenses] : D \in SUBSET Keys} :
        "K2" \in DOMAIN f => f["K2"] \in FreshLicenses}

InitCommon ==
    /\ hwidRequests = {}
    /\ activityLog = EmptyBag
    /\ session = ADMIN_USERNAME
    /\ now = 1
    /\ nreq = 0
    /\ req = [r \in Slots |-> IdleReq]

\* ---------------------------------------------------------------- overlapping requests
\* here the initial licenses never expire; the expiring ones are generated
Init ==
    /\ InitCommon
    /\ licenses \in {f \in InitLicenses : \A k \in DOMAIN f : f[k].expiry = None}
    /\ banlist = <<>>
    /\ settings = Some([apiEnabled |-> Some(TRUE)])

StartRequest(r) ==
    \/ \E k \in Keys, h \in HWIDs : ValidateStart(r, k, h)
    \/ \E k \in Keys, h \in HWIDs : RegisterStart(r, k, h)
    \/ \E k \in Keys, e \in Expiries : GenerateStart(r, k, e)
    \/ \E k \in Keys : DeleteStart(r, k)
    \/ \E k \in Keys : ResetStart(r, k)
    \/ \E id \in RequestIds, k \in Keys : ApproveStart(r, id, k)

Step(r) ==
    \/ ValidateLog(r)
    \/ ValidateSettings(r)
    \/ ValidateBanlist(r)
    \/ ValidateLicense(r)
    \/ ValidateSave(r)
    \/ RegisterLog(r)
    \/ RegisterSettings(r)
    \/ RegisterBanlist(r)
    \/ RegisterLicense(r)
    \/ RegisterScan(r)
    \/ RegisterSave(r)
    \/ GenerateLicense(r)
    \/ GenerateSave(r)
    \/ GenerateLog(r)
    \/ DeleteLicense(r)
    \/ DeleteLog(r)
    \/ ResetLicense(r)
    \/ ResetSave(r)
    \/ ResetLog(r)
    \/ ApproveLicense(r)
    \/ ApproveSave(r)
    \/ ApproveLog(r)
    \/ ApproveDelete(r)

Next ==
    \/ nreq < MaxRequests /\ \E r \in Slots : StartRequest(r)
    \/ \E r \in Slots : Step(r)
    \/ Tick

Spec == Init /\ [][Next]_vars

\* ---------------------------------------------------------------- one request at a time
InitSeq ==
    /\ InitCommon
    /\ licenses \in InitLicenses
    /\ banlist \in {<<>>, <<"H1">>, <<"H2">>}
    /\ settings \in {Some([apiEnabled |-> Some(TRUE)]), Some([apiEnabled |-> Some(FALSE)])}

\* inputs of the API requests, the empty (missing) parameter included
SeqKeys == Keys \cup {""}
SeqHWIDs == HWIDs \cup {""}

StartSeq(r) ==
    \/ \E k \in SeqKeys, h \in SeqHWIDs : ValidateStart(r, k, h)
    \/ \E k \in SeqKeys, h \in SeqHWIDs : RegisterStart(r, k, h)
    \/ \E k \in Keys, e \in Expiries : GenerateStart(r, k, e)
    \/ \E k \in Keys : DeleteStart(r, k)
    \/ \E k \in Keys : ResetStart(r, k)
    \/ \E id \in RequestIds, k \in Keys : ApproveStart(r, id, k)

NextSeq ==
    \/ nreq < MaxSeqRequests /\ StartSeq("r1")
    \/ Step("r1")
    \/ Tick

SpecSeq == InitSeq /\ [][NextSeq]_vars

\* ================================================================ properties
\* what the store holds, stated without the handlers' own helpers
Exists(k) == k \in DOMAIN licenses
BoundTo(k, h) == Exists(k) /\ licenses[k].hwid = h
StoredEnabled == settings = None \/ settings[1].apiEnabled = Some(TRUE)
StoredDisabled == settings # None /\ settings[1].apiEnabled = Some(FALSE)
StoredBanned(h) == \E i \in DOMAIN banlist : banlist[i] = h
ExpiredAt(k, t) == Exists(k) /\ licenses[k].expiry # None /\ t > licenses[k].expiry[1]

Api(r) == req[r].op \in {"validate", "register"}
Done(r, op, out) == req[r].op = op /\ req[r].pc = "done" /\ req[r].resp = out
\* request r, in flight, takes its next step
Steps(r) == req[r].pc \notin {"idle", "done"} /\ req'[r] # req[r]
\* request r responds in this step
Responds(r) == Steps(r) /\ req'[r].pc = "done"
\* the step in which request r reads the record of its license key
ReadsLicense(r) == Steps(r) /\ req[r].pc = "getLicense"

\* ---------------------------------------------------------------- C1
\* C1: no two distinct license records hold the same non-empty hwid.
C1_HwidUnique ==
    \A k1 \in DOMAIN licenses, k2 \in DOMAIN licenses :
        (k1 # k2 /\ licenses[k1].hwid # "") => licenses[k1].hwid # licenses[k2].hwid

\* ---------------------------------------------------------------- C2
\* two register requests for one hwid on two different keys
RacePair(r, o) ==
    /\ r # o
    /\ req[r].op = "register" /\ req[o].op = "register"
    /\ req[r].hwid = req[o].hwid
    /\ req[r].key # req[o].key

\* r has done its reads (record and scan) and has not written yet
ReadNotWritten(r) == req[r].op = "register" /\ req[r].pc = "save"
Succeeded(r) == Done(r, "register", "SUCCESS") /\ BoundTo(req[r].key, req[r].hwid)

\* C2: when two register requests for the same hwid on two different licenses
\* have both read before either writes, each write responds SUCCESS and binds
\* its license to the hwid, and the first binding is still there after the
\* second write: both licenses end bound to the same hwid.
C2_RegisterRace ==
    [][\A r \in Slots, o \in Slots :
          (/\ RacePair(r, o)
           /\ ReadNotWritten(r)
           /\ ReadNotWritten(o) \/ Succeeded(o)
           /\ Steps(r))
          => /\ req'[r].pc = "done" /\ req'[r].resp = "SUCCESS"
             /\ req[r].key \in DOMAIN licenses' /\ licenses'[req[r].key].hwid = req[r].hwid
             /\ Succeeded(o) =>
                    (req[o].key \in DOMAIN licenses' /\ licenses'[req[o].key].hwid = req[o].hwid)
      ]_vars

\* both requests answered SUCCESS and both licenses are bound to the one hwid
C2_Witness ==
    \E r \in Slots, o \in Slots :
        /\ RacePair(r, o) /\ Succeeded(r) /\ Succeeded(o)
        /\ Len(licenses[req[r].key].history) = 1
        /\ Len(licenses[req[o].key].history) = 1

\* ---------------------------------------------------------------- C3
\* C3: the register requests on one license that respond SUCCESS with no reset
\* of that license in between name the same hwid.  Stated for the behaviours
\* whose only two requests are two registers on the same license (so that no
\* reset, delete or creation happened at all).
C3_OneDevicePerLicense ==
    \A r \in Slots, o \in Slots :
        (/\ nreq = 2
         /\ Done(r, "register", "SUCCESS") /\ Done(o, "register", "SUCCESS")
         /\ req[r].key = req[o].key)
        => req[r].hwid = req[o].hwid

\* ---------------------------------------------------------------- C4
\* C4: a step of a validate request changes no license record, except that it
\* may set lastValidated on the record of its own key; in particular it never
\* changes a hwid, and it neither creates nor removes a record.
C4_ValidateNeverBinds ==
    [][\A r \in Slots :
          (req[r].op = "validate" /\ Steps(r))
          => /\ DOMAIN licenses' = DOMAIN licenses
             /\ \A k \in DOMAIN licenses :
                    /\ licenses'[k].hwid = licenses[k].hwid
                    /\ k # req[r].key => licenses'[k] = licenses[k]
                    /\ [licenses'[k] EXCEPT !.lastValidated = licenses[k].lastValidated]
                          = licenses[k]
      ]_vars

\* ---------------------------------------------------------------- C5
\* C5: while the stored settings have apiEnabled = false, a validate or register
\* request with non-empty key and hwid writes no license record in any of its
\* steps, and the response it gives is API_DISABLED.
C5_DisabledFirst ==
    [][\A r \in Slots :
          (Api(r) /\ Steps(r) /\ StoredDisabled)
          => /\ licenses' = licenses
             /\ req'[r].pc = "done" => req'[r].resp = "API_DISABLED"
      ]_vars

\* register answered API_DISABLED for a banned hwid on a license bound to another hwid
C5_Witness ==
    \E r \in Slots :
        /\ Done(r, "register", "API_DISABLED")
        /\ StoredDisabled
        /\ StoredBanned(req[r].hwid)
        /\ Exists(req[r].key) /\ licenses[req[r].key].hwid \notin {"", req[r].hwid}

\* ---------------------------------------------------------------- C6
\* C6: with the API enabled, a validate or register request (non-empty key and
\* hwid) whose hwid is in the ban list is answered BANNED, whatever the state
\* of the license it names.
C6_BanPrecedes ==
    \A r \in Slots :
        (/\ Api(r) /\ req[r].pc = "done"
         /\ req[r].key # "" /\ req[r].hwid # ""
         /\ StoredEnabled
         /\ StoredBanned(req[r].hwid))
        => req[r].resp = "BANNED"

\* validate answered BANNED for a key that has no record
C6_Witness ==
    \E r \in Slots :
        Done(r, "validate", "BANNED") /\ ~Exists(req[r].key) /\ StoredBanned(req[r].hwid)

\* ---------------------------------------------------------------- C7
\* a completed request whose hwid is not banned, with the API enabled, got past
\* the gates, and answered INVALID_LICENSE if its key has no record
C7_Gated ==
    \A r \in Slots :
        (/\ Api(r) /\ req[r].pc = "done"
         /\ req[r].key # "" /\ req[r].hwid # ""
         /\ StoredEnabled /\ ~StoredBanned(req[r].hwid))
        => /\ req[r].resp \notin {"FAILED", "API_DISABLED", "BANNED"}
           /\ ~Exists(req[r].key) => req[r].resp = "INVALID_LICENSE"

\* C7: with the API enabled and the hwid not banned, a validate or register
\* request gets as far as reading the license record; if there is no record it
\* answers INVALID_LICENSE, and if the record is expired when it is read it
\* answers EXPIRED, whatever the record's binding and whoever holds the hwid.
C7_MissingThenExpired ==
    /\ []C7_Gated
    /\ [][\A r \in Slots :
            (Api(r) /\ ReadsLicense(r))
            => /\ ~Exists(req[r].key)
                    => (req'[r].pc = "done" /\ req'[r].resp = "INVALID_LICENSE")
               /\ ExpiredAt(req[r].key, now)
                    => (req'[r].pc = "done" /\ req'[r].resp = "EXPIRED")
        ]_vars

\* register answered EXPIRED on a record bound to another hwid
C7_Witness ==
    \E r \in Slots :
        /\ Done(r, "register", "EXPIRED")
        /\ ExpiredAt(req[r].key, now)
        /\ licenses[req[r].key].hwid \notin {"", req[r].hwid}

\* ---------------------------------------------------------------- C8
\* C8: with the API enabled and the hwid not banned, a validate request on an
\* existing record that is not expired is answered VALID if the record's hwid
\* equals the request's, and HWID_MISMATCH if not (an unbound record included).
C8_ValidOrMismatch ==
    \A r \in Slots :
        (/\ req[r].op = "validate" /\ req[r].pc = "done"
         /\ req[r].key # "" /\ req[r].hwid # ""
         /\ StoredEnabled /\ ~StoredBanned(req[r].hwid)
         /\ Exists(req[r].key) /\ ~ExpiredAt(req[r].key, now))
        => req[r].resp = (IF licenses[req[r].key].hwid = req[r].hwid
                            THEN "VALID" ELSE "HWID_MISMATCH")

\* validate answered HWID_MISMATCH on an unbound record that is not expired
C8_Witness ==
    \E r \in Slots :
        /\ Done(r, "validate", "HWID_MISMATCH")
        /\ BoundTo(req[r].key, "")
        /\ ~ExpiredAt(req[r].key, now)

\* ---------------------------------------------------------------- C9
\* C9: a register request that reads an existing, non-expired record bound to a
\* non-empty hwid other than its own answers ALREADY_REGISTERED in that step,
\* before any scan for the hwid, and writes nothing.
C9_AlreadyRegistered ==
    [][\A r \in Slots :
          (/\ req[r].op = "register" /\ ReadsLicense(r)
           /\ Exists(req[r].key) /\ ~ExpiredAt(req[r].key, now)
           /\ licenses[req[r].key].hwid \notin {"", req[r].hwid})
          => /\ req'[r].pc = "done" /\ req'[r].resp = "ALREADY_REGISTERED"
             /\ licenses' = licenses
      ]_vars

\* ALREADY_REGISTERED although the hwid is held by another license
C9_Witness ==
    \E r \in Slots, k \in Keys :
        /\ Done(r, "register", "ALREADY_REGISTERED")
        /\ k # req[r].key /\ BoundTo(k, req[r].hwid)
        /\ Exists(req[r].key) /\ licenses[req[r].key].hwid \notin {"", req[r].hwid}

\* ---------------------------------------------------------------- C10
\* C10: requests one after the other, API enabled, hwid h not banned: when a
\* register(k2, h) has completed on an existing, non-expired license k2 that is
\* not bound to a third hwid, and another license k1 is bound to h, the answer
\* was HWID_IN_USE and k2 is unbound.
C10_HwidInUse ==
    \A r \in Slots, k1 \in Keys :
        (/\ req[r].op = "register" /\ req[r].pc = "done"
         /\ req[r].hwid # ""
         /\ StoredEnabled /\ ~StoredBanned(req[r].hwid)
         /\ Exists(req[r].key) /\ ~ExpiredAt(req[r].key, now)
         /\ licenses[req[r].key].hwid \in {"", req[r].hwid}
         /\ k1 # req[r].key /\ BoundTo(k1, req[r].hwid))
        => /\ req[r].resp = "HWID_IN_USE"
           /\ licenses[req[r].key].hwid = ""

\* HWID_IN_USE for an unbound license while another license, registered before, holds the hwid
C10_Witness ==
    \E r \in Slots, k1 \in Keys :
        /\ Done(r, "register", "HWID_IN_USE")
        /\ BoundTo(req[r].key, "")
        /\ k1 # req[r].key /\ BoundTo(k1, req[r].hwid)
        /\ \E i \in DOMAIN licenses[k1].history :
              licenses[k1].history[i] = [action |-> "REGISTER", details |-> req[r].hwid]

\* ---------------------------------------------------------------- C11
RegisterEntry(h) == [action |-> "REGISTER", details |-> h]

\* the step in which register r writes and answers, and the step before it in
\* which it has scanned and builds the record it will write
RegisterWrites(r) == req[r].op = "register" /\ Steps(r) /\ req[r].pc = "save"
RegisterBuilds(r) == req[r].op = "register" /\ Steps(r) /\ req[r].pc = "scan" /\ req'[r].pc = "save"

\* C11: (requests one after the other) the record register builds is stamped
\* with the time of the call; when register answers SUCCESS the stored record
\* of its key has hwid = h, activatedAt and lastValidated equal to that stamp,
\* the history it had plus one REGISTER entry for h at the end, the same
\* expiry, createdAt and createdBy, and every other record is as it was.
C11_RegisterEffect ==
    /\ [][\A r \in Slots :
            RegisterBuilds(r)
            => /\ req'[r].lic[1].activatedAt = Some(now)
               /\ req'[r].lic[1].lastValidated = Some(now)
        ]_vars
    /\ [][\A r \in Slots :
            RegisterWrites(r)
            => LET k == req[r].key
                   stamp == req[r].lic[1].activatedAt
               IN  /\ req'[r].pc = "done" /\ req'[r].resp = "SUCCESS"
                   /\ Exists(k) /\ k \in DOMAIN licenses'
                   /\ licenses'[k] = [licenses[k] EXCEPT
                                         !.hwid = req[r].hwid,
                                         !.activatedAt = stamp,
                                         !.lastValidated = stamp,
                                         !.history = Append(@, RegisterEntry(req[r].hwid))]
                   /\ stamp # None /\ stamp[1] <= now
                   /\ DOMAIN licenses' = DOMAIN licenses
                   /\ \A o \in DOMAIN licenses : o # k => licenses'[o] = licenses[o]
        ]_vars

\* a register answered SUCCESS on a record whose history already held an entry,
\* and stamped it at a later time than its creation
C11_Witness ==
    \E r \in Slots :
        /\ Done(r, "register", "SUCCESS")
        /\ BoundTo(req[r].key, req[r].hwid)
        /\ Len(licenses[req[r].key].history) = 2
        /\ licenses[req[r].key].history[1].action = "HWID_RESET_BY_ADMIN"
        /\ licenses[req[r].key].history[2] = RegisterEntry(req[r].hwid)

\* ---------------------------------------------------------------- C12
\* C12: (requests one after the other) a register(k, h) that finds k already
\* bound to h, with the API enabled, h not banned and k not expired, answers
\* SUCCESS: it passes the decision as a registration to carry out, and its
\* write leaves the binding in place, re-stamps activatedAt and lastValidated
\* to a time not before the old ones and appends exactly one REGISTER entry.
C12_SameDeviceIdempotent ==
    /\ [][\A r \in Slots :
            ( /\ req[r].op = "register" /\ ReadsLicense(r)
              /\ BoundTo(req[r].key, req[r].hwid)
              /\ ~ExpiredAt(req[r].key, now) )
            => req'[r].pc = "scan"
        ]_vars
    /\ [][\A r \in Slots :
            ( /\ req[r].op = "register" /\ Steps(r) /\ req[r].pc = "scan"
              /\ BoundTo(req[r].key, req[r].hwid) )
            => req'[r].pc = "save"
        ]_vars
    /\ [][\A r \in Slots :
            (RegisterWrites(r) /\ BoundTo(req[r].key, req[r].hwid))
            => LET old == licenses[req[r].key]
                   new == licenses'[req[r].key]
               IN  /\ req'[r].resp = "SUCCESS"
                   /\ new.hwid = old.hwid
                   /\ new.history = Append(old.history, RegisterEntry(req[r].hwid))
                   /\ new.activatedAt # None /\ new.activatedAt[1] >= old.activatedAt[1]
                   /\ new.lastValidated = new.activatedAt
                   /\ new.lastValidated[1] >= old.lastValidated[1]
        ]_vars

\* two registrations of the same device on one key have both answered SUCCESS:
\* the history holds one REGISTER entry for each and the stamp has moved
C12_Witness ==
    \E r \in Slots :
        /\ Done(r, "register", "SUCCESS")
        /\ nreq = 2
        /\ BoundTo(req[r].key, req[r].hwid)
        /\ licenses[req[r].key].history
              = <<RegisterEntry(req[r].hwid), RegisterEntry(req[r].hwid)>>
        /\ licenses[req[r].key].activatedAt = Some(2)

\* ---------------------------------------------------------------- C13
\* the binding scenario: an empty store, the API enabled, nothing banned; the
\* administrator creates K1 without expiry, devices validate and register on
\* it, one request at a time; no reset and no deletion
ScenarioKey == "K1"

InitScenario ==
    /\ InitCommon
    /\ licenses = <<>>
    /\ banlist = <<>>
    /\ settings = Some([apiEnabled |-> Some(TRUE)])

StartScenario(r) ==
    \/ GenerateStart(r, ScenarioKey, None)
    \/ \E h \in HWIDs : ValidateStart(r, ScenarioKey, h)
    \/ \E h \in HWIDs : RegisterStart(r, ScenarioKey, h)

StepScenario(r) ==
    \/ GenerateLicense(r)
    \/ GenerateSave(r)
    \/ GenerateLog(r)
    \/ ValidateLog(r)
    \/ ValidateSettings(r)
    \/ ValidateBanlist(r)
    \/ ValidateLicense(r)
    \/ ValidateSave(r)
    \/ RegisterLog(r)
    \/ RegisterSettings(r)
    \/ RegisterBanlist(r)
    \/ RegisterLicense(r)
    \/ RegisterScan(r)
    \/ RegisterSave(r)

NextScenario ==
    \/ nreq < MaxScenarioRequests /\ StartScenario("r1")
    \/ StepScenario("r1")
    \/ Tick

SpecScenario == InitScenario /\ [][NextScenario]_vars

\* C13: for a license created with no expiry and no HWID, with the API enabled
\* and nothing banned, and as long as it is neither reset nor deleted:
\* validate(k, h) answers VALID when k is bound to h and HWID_MISMATCH otherwise
\* (so before any registration too); register(k, h) on the unbound k binds it
\* to h and answers SUCCESS; register(k, h2) on k bound to another device
\* answers ALREADY_REGISTERED; and a binding, once made, stays.
C13_BindingScenario ==
    /\ [](\A r \in Slots :
            (req[r].op = "validate" /\ req[r].pc = "done" /\ Exists(req[r].key))
            => req[r].resp = (IF BoundTo(req[r].key, req[r].hwid)
                                THEN "VALID" ELSE "HWID_MISMATCH"))
    /\ [][\A r \in Slots :
            (req[r].op = "register" /\ ReadsLicense(r) /\ Exists(req[r].key))
            => IF licenses[req[r].key].hwid \in {"", req[r].hwid}
                 THEN req'[r].pc = "scan"
                 ELSE req'[r].pc = "done" /\ req'[r].resp = "ALREADY_REGISTERED"
        ]_vars
    /\ [][\A r \in Slots :
            (req[r].op = "register" /\ Steps(r) /\ req[r].pc = "scan")
            => req'[r].pc = "save"
        ]_vars
    /\ [][\A r \in Slots :
            RegisterWrites(r)
            => /\ req'[r].resp = "SUCCESS"
               /\ req[r].key \in DOMAIN licenses'
               /\ licenses'[req[r].key].hwid = req[r].hwid
        ]_vars
    /\ [][\A k \in DOMAIN licenses :
            licenses[k].hwid # ""
            => k \in DOMAIN licenses' /\ licenses'[k].hwid = licenses[k].hwid
        ]_vars
    /\ [](\A k \in DOMAIN licenses : licenses[k].expiry = None)

\* the scenario has run to its end: K1 created, validate(K1, H1) refused,
\* register(K1, H1), validate(K1, H1), validate(K1, H2), and now register(K1, H2)
\* answered ALREADY_REGISTERED with K1 still bound to H1
C13_Witness ==
    /\ Done("r1", "register", "ALREADY_REGISTERED")
    /\ req["r1"].hwid = "H2"
    /\ BoundTo(ScenarioKey, "H1")
    /\ nreq = 6
    /\ licenses[ScenarioKey].history = <<RegisterEntry("H1")>>
    /\ licenses[ScenarioKey].lastValidated[1] > licenses[ScenarioKey].activatedAt[1]
    /\ CopiesIn([action |-> "API_VALIDATE", license |-> ScenarioKey, hwid |-> "H1"], activityLog) = 2
    /\ CopiesIn([action |-> "API_VALIDATE", license |-> ScenarioKey, hwid |-> "H2"], activityLog) = 1
    /\ CopiesIn([action |-> "API_REGISTER", license |-> ScenarioKey, hwid |-> "H1"], activityLog) = 1
    /\ CopiesIn([action |-> "API_REGISTER", license |-> ScenarioKey, hwid |-> "H2"], activityLog) = 1

\* ---------------------------------------------------------------- C14
IsPrefix(s, t) == Len(s) <= Len(t) /\ SubSeq(t, 1, Len(s)) = s

\* C14: the stored history of a license is append-only: in every step, the
\* history of every record that exists before and after the step is, before
\* the step, a prefix of what it is after the step.
C14_HistoryAppendOnly ==
    [][\A k \in DOMAIN licenses \cap DOMAIN licenses' :
          IsPrefix(licenses[k].history, licenses'[k].history)
    ]_vars

\* ---------------------------------------------------------------- failing store accesses
\* what the helpers hand back when the store access throws: every helper
\* catches the exception itself and returns a default
FailedSettings == [apiEnabled |-> None]     \* getSettings: return {}
FailedBanlist == <<>>                       \* getBanlist: return []
FailedLicense == None                       \* getLicense: return null
FailedLicenses == <<>>                      \* getLicenses: return {}

\* the request goes on, or answers, after the access named what has failed
GotoAfterFault(r, pc, what) == req' = [req EXCEPT ![r].pc = pc, ![r].fault = what]
RespondAfterFault(r, out, what) ==
    req' = [req EXCEPT ![r].pc = "done", ![r].resp = out, ![r].lic = None, ![r].fault = what]

\* logActivity: the add fails, the error is logged to the console, nothing is stored
ValidateLogFault(r) ==
    /\ At(r, "validate", "log")
    /\ Goto(r, "settings")
    /\ UNCHANGED <<store, session, now, nreq>>

ValidateSettingsFault(r) ==
    /\ At(r, "validate", "settings")
    /\ IF ApiEnabled(FailedSettings)
         THEN GotoAfterFault(r, "banlist", "settings")
         ELSE RespondAfterFault(r, "API_DISABLED", "settings")
    /\ UNCHANGED <<store, session, now, nreq>>

ValidateBanlistFault(r) ==
    /\ At(r, "validate", "banlist")
    /\ IF isHWIDBanned(req[r].hwid, FailedBanlist)
         THEN RespondAfterFault(r, "BANNED", "banlist")
         ELSE GotoAfterFault(r, "getLicense", "banlist")
    /\ UNCHANGED <<store, session, now, nreq>>

ValidateLicenseFault(r) ==
    /\ At(r, "validate", "getLicense")
    /\ RespondAfterFault(r, ValidateDecide(FailedLicense, req[r].hwid, now), "license")
    /\ UNCHANGED <<store, session, now, nreq>>

\* saveLicense returns false, which validate does not look at
ValidateSaveFault(r) ==
    /\ At(r, "validate", "save")
    /\ RespondAfterFault(r, "VALID", "save")
    /\ UNCHANGED <<store, session, now, nreq>>

RegisterLogFault(r) ==
    /\ At(r, "register", "log")
    /\ Goto(r, "settings")
    /\ UNCHANGED <<store, session, now, nreq>>

RegisterSettingsFault(r) ==
    /\ At(r, "register", "settings")
    /\ IF ApiEnabled(FailedSettings)
         THEN GotoAfterFault(r, "banlist", "settings")
         ELSE RespondAfterFault(r, "API_DISABLED", "settings")
    /\ UNCHANGED <<store, session, now, nreq>>

RegisterBanlistFault(r) ==
    /\ At(r, "register", "banlist")
    /\ IF isHWIDBanned(req[r].hwid, FailedBanlist)
         THEN RespondAfterFault(r, "BANNED", "banlist")
         ELSE GotoAfterFault(r, "getLicense", "banlist")
    /\ UNCHANGED <<store, session, now, nreq>>

RegisterLicenseFault(r) ==
    /\ At(r, "register", "getLicense")
    /\ RespondAfterFault(r, RegisterDecide(FailedLicense, req[r].hwid, now), "license")
    /\ UNCHANGED <<store, session, now, nreq>>

\* the scan runs over the empty collection: no holder is found
RegisterScanFault(r) ==
    /\ At(r, "register", "scan")
    /\ IF HwidInUse(FailedLicenses, req[r].key, req[r].hwid)
         THEN RespondAfterFault(r, "HWID_IN_USE", "scan")
         ELSE req' = [req EXCEPT ![r].pc = "save",
                                 ![r].lic = Some(RegisterUpdate(req[r].lic[1], req[r].hwid, now)),
                                 ![r].fault = "scan"]
    /\ UNCHANGED <<store, session, now, nreq>>

\* saveLicense returns false, which register does not look at
RegisterSaveFault(r) ==
    /\ At(r, "register", "save")
    /\ RespondAfterFault(r, "SUCCESS", "save")
    /\ UNCHANGED <<store, session, now, nreq>>

\* the store before the first request: the API enabled, H1 banned or nothing banned
InitFault ==
    /\ InitCommon
    /\ licenses \in {f \in InitLicenses : \A k \in DOMAIN f : f[k].expiry = None}
    /\ banlist \in {<<>>, <<"H1">>}
    /\ settings = Some([apiEnabled |-> Some(TRUE)])

StartFault(r) ==
    \/ \E k \in Keys, h \in HWIDs : ValidateStart(r, k, h)
    \/ \E k \in Keys, h \in HWIDs : RegisterStart(r, k, h)

StepFault(r) ==
    \/ ValidateLog(r)
    \/ ValidateLogFault(r)
    \/ ValidateSettings(r)
    \/ ValidateSettingsFault(r)
    \/ ValidateBanlist(r)
    \/ ValidateBanlistFault(r)
    \/ ValidateLicense(r)
    \/ ValidateLicenseFault(r)
    \/ ValidateSave(r)
    \/ ValidateSaveFault(r)
    \/ RegisterLog(r)
    \/ RegisterLogFault(r)
    \/ RegisterSettings(r)
    \/ RegisterSettingsFault(r)
    \/ RegisterBanlist(r)
    \/ RegisterBanlistFault(r)
    \/ RegisterLicense(r)
    \/ RegisterLicenseFault(r)
    \/ RegisterScan(r)
    \/ RegisterScanFault(r)
    \/ RegisterSave(r)
    \/ RegisterSaveFault(r)

NextFault ==
    \/ nreq < MaxFaultRequests /\ StartFault("r1")
    \/ StepFault("r1")
    \/ Tick

SpecFault == InitFault /\ [][NextFault]_vars

\* ---------------------------------------------------------------- C15
\* C15: a validate or register request during which a store access has failed
\* (the read of the settings, of the ban list, of the license record, the scan
\* of all licenses or the write of the record) answers ERROR.
C15_FaultIsError ==
    \A r \in Slots :
        (Api(r) /\ req[r].pc = "done" /\ req[r].fault # "") => req[r].resp = "ERROR"

\* ---------------------------------------------------------------- C16
MissingParameter(q) == q.op \in {"validate", "register"} /\ (q.key = "" \/ q.hwid = "")

\* C16: a validate or register request without license key or without hwid is
\* answered FAILED in the step in which it arrives: that step leaves settings,
\* ban list, license records, reset requests and activity log as they were,
\* and the request never stands at a store access.
C16_MissingIsFailedFirst ==
    /\ [][\A r \in Slots :
            (req'[r] # req[r] /\ MissingParameter(req'[r]))
            => /\ req'[r].pc = "done"
               /\ req'[r].resp = "FAILED"
               /\ store' = store
        ]_vars
    /\ [](\A r \in Slots :
            MissingParameter(req[r]) => req[r].pc = "done" /\ req[r].resp = "FAILED")

\* two requests without hwid have been answered FAILED, one of them for a
\* license that exists, and the activity log is still empty
C16_Witness ==
    \E r \in Slots :
        /\ req[r].op \in {"validate", "register"}
        /\ req[r].pc = "done" /\ req[r].resp = "FAILED"
        /\ req[r].hwid = "" /\ Exists(req[r].key)
        /\ nreq = 2
        /\ activityLog = EmptyBag

\* ---------------------------------------------------------------- requests under fair scheduling
\* every store call completes or fails: the completing continuation of a
\* handler is taken sooner or later, the failing one may be taken instead
StartLive(r) ==
    \/ \E k \in SeqKeys, h \in SeqHWIDs : ValidateStart(r, k, h)
    \/ \E k \in SeqKeys, h \in SeqHWIDs : RegisterStart(r, k, h)

StepApi(r) ==
    \/ ValidateLog(r)
    \/ ValidateSettings(r)
    \/ ValidateBanlist(r)
    \/ ValidateLicense(r)
    \/ ValidateSave(r)
    \/ RegisterLog(r)
    \/ RegisterSettings(r)
    \/ RegisterBanlist(r)
    \/ RegisterLicense(r)
    \/ RegisterScan(r)
    \/ RegisterSave(r)

StepApiFault(r) ==
    \/ ValidateLogFault(r)
    \/ ValidateSettingsFault(r)
    \/ ValidateBanlistFault(r)
    \/ ValidateLicenseFault(r)
    \/ ValidateSaveFault(r)
    \/ RegisterLogFault(r)
    \/ RegisterSettingsFault(r)
    \/ RegisterBanlistFault(r)
    \/ RegisterLicenseFault(r)
    \/ RegisterScanFault(r)
    \/ RegisterSaveFault(r)

NextLive ==
    \/ nreq < MaxLiveRequests /\ StartLive("r1")
    \/ StepApi("r1")
    \/ StepApiFault("r1")
    \/ Tick

SpecLive == InitSeq /\ [][NextLive]_vars /\ WF_vars(StepApi("r1"))

\* ---------------------------------------------------------------- C17
ValidateOutcomes == {"FAILED", "API_DISABLED", "BANNED", "INVALID_LICENSE", "EXPIRED",
                     "VALID", "HWID_MISMATCH", "ERROR"}
RegisterOutcomes == {"FAILED", "API_DISABLED", "BANNED", "INVALID_LICENSE", "EXPIRED",
                     "ALREADY_REGISTERED", "HWID_IN_USE", "SUCCESS", "ERROR"}

\* C17: when every store call completes or fails, every validate and every
\* register request that has arrived is answered; the answer of a validate is
\* one of FAILED, API_DISABLED, BANNED, INVALID_LICENSE, EXPIRED, VALID,
\* HWID_MISMATCH, ERROR, that of a register one of FAILED, API_DISABLED,
\* BANNED, INVALID_LICENSE, EXPIRED, ALREADY_REGISTERED, HWID_IN_USE, SUCCESS,
\* ERROR; and an answered request takes no further step and keeps its answer.
C17_TotalAndComplete ==
    /\ \A r \in Slots : (Api(r) /\ req[r].pc # "done") ~> (Api(r) /\ req[r].pc = "done")
    /\ [](\A r \in Slots :
            (Api(r) /\ req[r].pc = "done")
            => req[r].resp \in (IF req[r].op = "validate"
                                  THEN ValidateOutcomes ELSE RegisterOutcomes))
    /\ [][\A r \in Slots :
            (Api(r) /\ req[r].pc = "done" /\ nreq' = nreq)
            => req'[r] = req[r] /\ store' = store
        ]_vars

\* a register request whose scan of the licenses failed has been answered
C17_Witness ==
    \E r \in Slots :
        /\ req[r].op = "register" /\ req[r].pc = "done"
        /\ req[r].fault \in {"scan", "save"}
        /\ req[r].resp \in RegisterOutcomes

\* ---------------------------------------------------------------- C18
PolicyRejections == {"API_DISABLED", "BANNED", "INVALID_LICENSE", "EXPIRED",
                     "HWID_MISMATCH", "ALREADY_REGISTERED", "HWID_IN_USE"}

\* the activity log entry of request q
LogEntry(q) == [action |-> IF q.op = "validate" THEN "API_VALIDATE" ELSE "API_REGISTER",
                license |-> q.key, hwid |-> q.hwid]

\* C18: when a validate or register request has been answered with a policy
\* rejection, the activity log holds an entry naming its license key and its
\* hwid; and no step takes an entry out of the activity log.
C18_RejectionsLogged ==
    /\ [](\A r \in Slots :
            (Api(r) /\ req[r].pc = "done" /\ req[r].resp \in PolicyRejections)
            => CopiesIn(LogEntry(req[r]), activityLog) >= 1)
    /\ [][activityLog \sqsubseteq activityLog']_vars

\* ---------------------------------------------------------------- C19
\* C19: creation never overwrites: a generate-license request that reads an
\* existing record of its key is rejected, and no step of a generate-license
\* request changes or removes a record that exists before the step.
C19_CreationNeverOverwrites ==
    /\ [][\A r \in Slots :
            (req[r].op = "generate" /\ ReadsLicense(r) /\ Exists(req[r].key))
            => req'[r].pc = "done" /\ req'[r].resp = "EXISTS"
        ]_vars
    /\ [][\A r \in Slots :
            (req[r].op = "generate" /\ Steps(r))
            => \A k \in DOMAIN licenses :
                  k \in DOMAIN licenses' /\ licenses'[k] = licenses[k]
        ]_vars

\* ---------------------------------------------------------------- C20
\* delete-license(k) has completed: its LICENSE_DELETED entry is in the log
Deleted(k) == CopiesIn([action |-> "LICENSE_DELETED", license |-> k, hwid |-> ""], activityLog) >= 1

\* C20: the step of delete-license(k) that deletes leaves no record of k, and
\* once a delete-license(k) has completed, a record of k that is absent comes
\* into being only by a step of a generate-license request for k.
C20_DeletionTerminal ==
    /\ [][\A r \in Slots :
            (req[r].op = "delete" /\ Steps(r) /\ req[r].pc = "delete")
            => req[r].key \notin DOMAIN licenses'
        ]_vars
    /\ [][\A k \in Keys :
            (Deleted(k) /\ k \notin DOMAIN licenses /\ k \in DOMAIN licenses')
            => \E r \in Slots : req[r].op = "generate" /\ req[r].key = k /\ Steps(r)
        ]_vars

\* ---------------------------------------------------------------- C21
\* C21: the hwid of a license record goes from empty to non-empty only in the
\* writing step of a register request for that key, which answers SUCCESS, and
\* from non-empty to empty only in a step of a reset-hwid or approve-hwid-reset
\* request for that key.
C21_BindingCauses ==
    [][\A k \in DOMAIN licenses \cap DOMAIN licenses' :
          /\ (licenses[k].hwid = "" /\ licenses'[k].hwid # "")
             => \E r \in Slots : /\ RegisterWrites(r) /\ req[r].key = k
                                 /\ req'[r].resp = "SUCCESS"
          /\ (licenses[k].hwid # "" /\ licenses'[k].hwid = "")
             => \E r \in Slots : /\ req[r].op \in {"reset", "approve"}
                                 /\ Steps(r) /\ req[r].key = k
    ]_vars

\* ---------------------------------------------------------------- the ban list
\* what an admin may type into the ban form: a HWID, a HWID with a blank
\* before it, nothing, or a blank
PaddedHWIDs == {" " \o h : h \in HWIDs}
BanInputs == HWIDs \cup {" H1", "", " "}

\* hwid.trim(): the blanks around the text are dropped
Trim(s) ==
    IF s = " " THEN ""
    ELSE IF s \in PaddedHWIDs THEN CHOOSE h \in HWIDs : s = " " \o h
    ELSE s

\* getBanlist: the hwids array of settings/banlist ([] when the document is missing)
getBanlist == banlist

\* saveBanlist: set({ hwids: banlist }), the whole document is replaced
saveBanlist(list) == banlist' = list

\* variant: the hwid is pushed without looking whether the list holds it
BanNeeded_Always(list, hwid) == TRUE

\* if (!banlist.includes(hwid.trim())) { ... }
BanNeeded(list, hwid) == ~isHWIDBanned(Trim(hwid), list)

\* banlist.push(hwid.trim())
BanList(list, hwid) == Append(list, Trim(hwid))

\* variant: the first entry is dropped (banlist.slice(1)) whatever it is
UnbanList_First(list, hwid) == IF list = <<>> THEN list ELSE Tail(list)

\* banlist.filter(h => h !== hwid)
UnbanList(list, hwid) == SelectSeq(list, LAMBDA x : x # hwid)

\* POST /admin/ban-hwid: const { hwid } = req.body; if (hwid && hwid.trim()) { ... }
BanStart(r, h) ==
    /\ IF ~requireLogin THEN Begin(r, "ban", "", h, 0, "done", "LOGIN")
       ELSE IF h # "" /\ Trim(h) # "" THEN Begin(r, "ban", "", h, 0, "getBanlist", "")
       ELSE Begin(r, "ban", "", h, 0, "done", "REDIRECT")
    /\ UNCHANGED <<store, session, now>>

\* const banlist = await getBanlist(); if (!banlist.includes(...)) { banlist.push(...)
BanRead(r) ==
    /\ At(r, "ban", "getBanlist")
    /\ IF BanNeeded(getBanlist, req[r].hwid)
         THEN req' = [req EXCEPT ![r].pc = "save", ![r].list = BanList(getBanlist, req[r].hwid)]
         ELSE Respond(r, "REDIRECT")
    /\ UNCHANGED <<store, session, now, nreq>>

\* await saveBanlist(banlist)
BanSave(r) ==
    /\ At(r, "ban", "save")
    /\ saveBanlist(req[r].list)
    /\ req' = [req EXCEPT ![r].pc = "log", ![r].list = <<>>]
    /\ UNCHANGED <<licenses, settings, hwidRequests, activityLog, session, now, nreq>>

\* await logActivity('HWID_BANNED', `HWID: ${hwid} ...`); res.redirect('/admin')
BanLog(r) ==
    /\ At(r, "ban", "log")
    /\ logActivity("HWID_BANNED", "", req[r].hwid)
    /\ Respond(r, "REDIRECT")
    /\ UNCHANGED <<licenses, banlist, settings, hwidRequests, session, now, nreq>>

\* POST /admin/unban-hwid: const { hwid } = req.body
UnbanStart(r, h) ==
    /\ IF requireLogin
         THEN Begin(r, "unban", "", h, 0, "getBanlist", "")
         ELSE Begin(r, "unban", "", h, 0, "done", "LOGIN")
    /\ UNCHANGED <<store, session, now>>

\* const banlist = await getBanlist(); const newBanlist = banlist.filter(h => h !== hwid)
UnbanRead(r) ==
    /\ At(r, "unban", "getBanlist")
    /\ req' = [req EXCEPT ![r].pc = "save", ![r].list = UnbanList(getBanlist, req[r].hwid)]
    /\ UNCHANGED <<store, session, now, nreq>>

\* await saveBanlist(newBanlist)
UnbanSave(r) ==
    /\ At(r, "unban", "save")
    /\ saveBanlist(req[r].list)
    /\ req' = [req EXCEPT ![r].pc = "log", ![r].list = <<>>]
    /\ UNCHANGED <<licenses, settings, hwidRequests, activityLog, session, now, nreq>>

\* await logActivity('HWID_UNBANNED', `HWID: ${hwid}`); res.redirect('/admin')
UnbanLog(r) ==
    /\ At(r, "unban", "log")
    /\ logActivity("HWID_UNBANNED", "", req[r].hwid)
    /\ Respond(r, "REDIRECT")
    /\ UNCHANGED <<licenses, banlist, settings, hwidRequests, session, now, nreq>>

StepBan(r) ==
    \/ BanRead(r)
    \/ BanSave(r)
    \/ BanLog(r)
    \/ UnbanRead(r)
    \/ UnbanSave(r)
    \/ UnbanLog(r)

\* ---------------------------------------------------------------- ban list requests overlapping
\* K1 is bound to H1, the API is enabled, nothing is banned yet
InitBan ==
    /\ InitCommon
    /\ licenses = [k \in {"K1"} |-> RegisterUpdate(NewLicense(None, 1), "H1", 1)]
    /\ banlist = <<>>
    /\ settings = Some([apiEnabled |-> Some(TRUE)])

\* the ban-hwid request for h has completed with h newly banned: its entry is logged
BanCompleted(h) ==
    CopiesIn([action |-> "HWID_BANNED", license |-> "", hwid |-> h], activityLog) >= 1

\* an unban-hwid request for h has arrived: it is in a slot or its entry is logged
UnbanRequested(h) ==
    \/ CopiesIn([action |-> "HWID_UNBANNED", license |-> "", hwid |-> h], activityLog) >= 1
    \/ \E r \in Slots : req[r].op = "unban" /\ req[r].hwid = h

\* the admin bans and unbans; a device calls the API only after the ban of its
\* hwid has completed
StartBan(r) ==
    \/ \E h \in HWIDs \cup {" H1"} : BanStart(r, h)
    \/ \E h \in HWIDs : UnbanStart(r, h)
    \/ \E h \in HWIDs : BanCompleted(h) /\ ValidateStart(r, "K1", h)
    \/ \E h \in HWIDs : BanCompleted(h) /\ RegisterStart(r, "K1", h)

NextBan ==
    \/ nreq < MaxBanRequests /\ \E r \in Slots : StartBan(r)
    \/ \E r \in Slots : StepBan(r)
    \/ \E r \in Slots : StepApi(r)

SpecBan == InitBan /\ [][NextBan]_vars

\* ---------------------------------------------------------------- C22
\* C22: (every validate and register request here starts after the ban of its
\* hwid has completed) with the API enabled and as long as no unban of that
\* hwid has been requested, the request is answered BANNED, whatever license
\* it names and whatever that license is bound to.
C22_BanTakesEffect ==
    \A r \in Slots :
        ( /\ Api(r) /\ req[r].pc = "done"
          /\ BanCompleted(req[r].hwid)
          /\ ~UnbanRequested(req[r].hwid)
          /\ StoredEnabled )
        => req[r].resp = "BANNED"

\* ---------------------------------------------------------------- ban list requests one at a time
InitBanSeq ==
    /\ InitCommon
    /\ licenses = [k \in {"K1"} |-> RegisterUpdate(NewLicense(None, 1), "H1", 1)]
    /\ banlist \in {<<>>, <<"H1">>, <<"H2", "H1">>}
    /\ settings = Some([apiEnabled |-> Some(TRUE)])

StartBanSeq(r) ==
    \/ \E h \in BanInputs : BanStart(r, h)
    \/ \E h \in BanInputs : UnbanStart(r, h)

NextBanSeq ==
    \/ nreq < MaxBanSeqRequests /\ StartBanSeq("r1")
    \/ StepBan("r1")

SpecBanSeq == InitBanSeq /\ [][NextBanSeq]_vars

\* ---------------------------------------------------------------- C23
NoDuplicates(list) == \A i, j \in 1..Len(list) : list[i] = list[j] => i = j
Blank(h) == h = "" \/ Trim(h) = ""

\* C23: (requests one after the other) the write of a ban request appends its
\* hwid, trimmed, to a list that did not hold it; a ban request that finds its
\* hwid in the list answers without writing the list or the log; a ban request
\* with an empty or blank hwid answers on arrival and changes nothing; and the
\* stored ban list never holds a HWID twice.
C23_BanAddsOnce ==
    /\ [][\A r \in Slots :
            (req[r].op = "ban" /\ Steps(r))
            => LET h == Trim(req[r].hwid)
               IN  /\ req[r].pc = "save"
                      => ~StoredBanned(h) /\ banlist' = Append(banlist, h)
                   /\ req[r].pc # "save" => banlist' = banlist
                   /\ (req[r].pc = "getBanlist" /\ StoredBanned(h))
                      => req'[r].pc = "done" /\ store' = store
        ]_vars
    /\ [][\A r \in Slots :
            (req'[r] # req[r] /\ req'[r].op = "ban" /\ Blank(req'[r].hwid))
            => req'[r].pc = "done" /\ store' = store
        ]_vars
    /\ [](\A r \in Slots : (req[r].op = "ban" /\ Blank(req[r].hwid)) => req[r].pc = "done")
    /\ []NoDuplicates(banlist)

\* H2 and then H1, typed with a blank before it, have been banned, and a
\* third request, ban of H1, has completed without a write
C23_Witness ==
    /\ req["r1"].op = "ban" /\ req["r1"].pc = "done" /\ req["r1"].hwid = "H1"
    /\ nreq = 3
    /\ banlist = <<"H2", "H1">>
    /\ BanCompleted("H2") /\ BanCompleted(" H1") /\ ~BanCompleted("H1")

\* ---------------------------------------------------------------- C24
\* C24: (requests one after the other) the write of unban(h) leaves h out of
\* the ban list and every other entry where it was, so that a HWID other than
\* h is banned after the write exactly when it was before; no other step of
\* an unban request changes the list; and when unban(h) has completed h is
\* not in the list.
C24_UnbanRemovesOnlyH ==
    /\ [][\A r \in Slots :
            (req[r].op = "unban" /\ Steps(r))
            => /\ req[r].pc = "save"
                  => /\ ~isHWIDBanned(req[r].hwid, banlist')
                     /\ banlist' = SelectSeq(banlist, LAMBDA x : x # req[r].hwid)
                     /\ \A x \in HWIDs \ {req[r].hwid} :
                           isHWIDBanned(x, banlist') <=> isHWIDBanned(x, banlist)
               /\ req[r].pc # "save" => banlist' = banlist
        ]_vars
    /\ [](\A r \in Slots :
            (req[r].op = "unban" /\ req[r].pc = "done") => ~StoredBanned(req[r].hwid))

\* H2 was banned next to H1 and unbanned again: H1 is still banned
C24_Witness ==
    /\ req["r1"].op = "unban" /\ req["r1"].pc = "done" /\ req["r1"].hwid = "H2"
    /\ BanCompleted("H2")
    /\ banlist = <<"H1">>

\* ---------------------------------------------------------------- C25
\* C25: whether a HWID is in the stored ban list changes only in a step of a
\* ban or unban request that names that HWID.
C25_BanlistChangesByNamedAction ==
    [][\A h \in HWIDs :
          (isHWIDBanned(h, banlist') # isHWIDBanned(h, banlist))
          => \E r \in Slots : /\ req[r].op \in {"ban", "unban"}
                              /\ Steps(r)
                              /\ Trim(req[r].hwid) = h
    ]_vars

\* ---------------------------------------------------------------- reset requests
\* the id the store gives a new document: one no document had before
FreshId(r) == 2 * nreq + (IF r = "r1" THEN 0 ELSE 1)

\* addHwidRequest: add({ ...data, timestamp, status: 'pending' }), returns docRef.id
addHwidRequest(id, licenseKey, hwid) ==
    hwidRequests' = hwidRequests \cup
        {[id |-> id, license |-> licenseKey, hwid |-> hwid, status |-> "pending"]}

\* POST /api/request-hwid-reset: if (!license || !hwid) return res.status(400)...
RequestResetStart(r, k, h) ==
    /\ IF k = "" \/ h = ""
         THEN Begin(r, "requestReset", k, h, 0, "done", "MISSING")
         ELSE Begin(r, "requestReset", k, h, 0, "addRequest", "")
    /\ UNCHANGED <<store, session, now>>

\* const requestId = await addHwidRequest({ license, hwid, ... })
RequestResetAdd(r) ==
    /\ At(r, "requestReset", "addRequest")
    /\ addHwidRequest(FreshId(r), req[r].key, req[r].hwid)
    /\ req' = [req EXCEPT ![r].pc = "log", ![r].id = FreshId(r)]
    /\ UNCHANGED <<licenses, banlist, settings, activityLog, session, now, nreq>>

\* the add throws: addHwidRequest catches it and returns null (id 0 here)
RequestResetAddFault(r) ==
    /\ At(r, "requestReset", "addRequest")
    /\ req' = [req EXCEPT ![r].pc = "log", ![r].id = 0, ![r].fault = "addRequest"]
    /\ UNCHANGED <<store, session, now, nreq>>

\* await logActivity('HWID_RESET_REQUEST', ...); res.json({ status: 'REQUESTED', requestId })
RequestResetLog(r) ==
    /\ At(r, "requestReset", "log")
    /\ logActivity("HWID_RESET_REQUEST", req[r].key, req[r].hwid)
    /\ Respond(r, "REQUESTED")
    /\ UNCHANGED <<licenses, banlist, settings, hwidRequests, session, now, nreq>>

\* POST /admin/deny-hwid-reset: const { requestId } = req.body
DenyStart(r, id) ==
    /\ IF requireLogin
         THEN Begin(r, "deny", "", "", id, "log", "")
         ELSE Begin(r, "deny", "", "", id, "done", "LOGIN")
    /\ UNCHANGED <<store, session, now>>

\* await logActivity('HWID_RESET_DENIED', `RequestID: ${requestId}`)
DenyLog(r) ==
    /\ At(r, "deny", "log")
    /\ logActivity("HWID_RESET_DENIED", "", "")
    /\ Goto(r, "deleteRequest")
    /\ UNCHANGED <<licenses, banlist, settings, hwidRequests, session, now, nreq>>

\* await deleteHwidRequest(requestId); res.redirect('/admin')
DenyDelete(r) ==
    /\ At(r, "deny", "deleteRequest")
    /\ deleteHwidRequest(req[r].id)
    /\ Respond(r, "REDIRECT")
    /\ UNCHANGED <<licenses, banlist, settings, activityLog, session, now, nreq>>

\* ---------------------------------------------------------------- reset requests, one request at a time
InitReset ==
    /\ InitCommon
    /\ licenses \in {f \in InitLicenses : \A k \in DOMAIN f : f[k].expiry = None}
    /\ banlist = <<>>
    /\ settings = Some([apiEnabled |-> Some(TRUE)])

StartReset(r) ==
    \/ \E k \in Keys, h \in HWIDs : RequestResetStart(r, k, h)
    \/ \E id \in RequestIds, k \in Keys : ApproveStart(r, id, k)
    \/ \E id \in RequestIds : DenyStart(r, id)

StepReset(r) ==
    \/ RequestResetAdd(r)
    \/ RequestResetLog(r)
    \/ ApproveLicense(r)
    \/ ApproveSave(r)
    \/ ApproveLog(r)
    \/ ApproveDelete(r)
    \/ DenyLog(r)
    \/ DenyDelete(r)

NextReset ==
    \/ nreq < MaxResetRequests /\ StartReset("r1")
    \/ StepReset("r1")
    \/ Tick

SpecReset == InitReset /\ [][NextReset]_vars

\* ---------------------------------------------------------------- C26
StoredRequest(id) == \E q \in hwidRequests : q.id = id

\* C26: (requests one after the other) the write of an approve request leaves
\* the named license with hwid and activatedAt empty and one
\* HWID_RESET_APPROVED entry appended to its history, and nothing else of it
\* changed; when the approve request has answered, the request entry is gone;
\* no step of a deny request changes a license record, and when it has
\* answered the request entry is gone; every stored request entry is pending.
C26_ResolvedByDeletion ==
    /\ [][\A r \in Slots :
            (req[r].op = "approve" /\ Steps(r) /\ req[r].pc = "save")
            => LET k == req[r].key
               IN  /\ Exists(k) /\ k \in DOMAIN licenses'
                   /\ licenses'[k] = [licenses[k] EXCEPT
                         !.hwid = "",
                         !.activatedAt = None,
                         !.history = Append(@, [action |-> "HWID_RESET_APPROVED",
                                                details |-> ADMIN_USERNAME])]
                   /\ \A o \in DOMAIN licenses \ {k} :
                         o \in DOMAIN licenses' /\ licenses'[o] = licenses[o]
        ]_vars
    /\ [][\A r \in Slots :
            (req[r].op = "approve" /\ Steps(r) /\ req[r].pc # "save")
            => licenses' = licenses
        ]_vars
    /\ [][\A r \in Slots : (req[r].op = "deny" /\ Steps(r)) => licenses' = licenses]_vars
    /\ [](\A r \in Slots :
            (req[r].op \in {"approve", "deny"} /\ req[r].pc = "done" /\ req[r].resp = "REDIRECT")
            => ~StoredRequest(req[r].id))
    /\ [](\A r \in Slots :
            (req[r].op = "approve" /\ req[r].pc = "done" /\ req[r].resp = "REDIRECT"
                /\ Exists(req[r].key))
            => /\ licenses[req[r].key].hwid = ""
               /\ licenses[req[r].key].activatedAt = None)
    /\ [](\A q \in hwidRequests : q.status = "pending")

\* a reset request for K1, bound to H1, was made and approved: K1 is unbound,
\* its history ends with the approval, and no request entry is left
C26_Witness ==
    /\ req["r1"].op = "approve" /\ req["r1"].pc = "done" /\ req["r1"].id # 0
    /\ req["r1"].key = "K1"
    /\ Exists("K1")
    /\ licenses["K1"].history = <<RegisterEntry("H1"),
                                  [action |-> "HWID_RESET_APPROVED", details |-> ADMIN_USERNAME]>>
    /\ licenses["K1"].hwid = ""
    /\ hwidRequests = {}
    /\ CopiesIn([action |-> "HWID_RESET_REQUEST", license |-> "K1", hwid |-> "H1"], activityLog) = 1

\* ---------------------------------------------------------------- GET /api/license-info
\* variant: the binding is looked at before the expiry
LicenseStatus_BindingFirst(lic, t) ==
    IF lic.hwid # "" THEN "Status: ACTIVE"
    ELSE IF isLicenseExpired(lic, t) THEN "Status: EXPIRED"
    ELSE "Status: INACTIVE"

\* const status = isLicenseExpired(lic) ? "EXPIRED" : (lic.hwid ? "ACTIVE" : "INACTIVE")
LicenseStatus(lic, t) ==
    IF isLicenseExpired(lic, t) THEN "Status: EXPIRED"
    ELSE IF lic.hwid # "" THEN "Status: ACTIVE"
    ELSE "Status: INACTIVE"

\* const { license } = req.query; if (!license) return res.send('License not found.')
LicenseInfoStart(r, k) ==
    /\ IF k = ""
         THEN Begin(r, "licenseInfo", k, "", 0, "done", "License not found.")
         ELSE Begin(r, "licenseInfo", k, "", 0, "getLicense", "")
    /\ UNCHANGED <<store, session, now>>

\* const lic = await getLicense(license); ... res.send(`Status: ${status} | ...`)
LicenseInfoRead(r) ==
    /\ At(r, "licenseInfo", "getLicense")
    /\ LET lic == getLicense(req[r].key)
       IN  IF lic = None
             THEN Respond(r, "License not found.")
             ELSE Respond(r, LicenseStatus(lic[1], now))
    /\ UNCHANGED <<store, session, now, nreq>>

\* ---------------------------------------------------------------- the client endpoints, one request at a time
StartClient(r) ==
    \/ \E k \in SeqKeys, h \in SeqHWIDs : ValidateStart(r, k, h)
    \/ \E k \in SeqKeys, h \in SeqHWIDs : RegisterStart(r, k, h)
    \/ \E k \in SeqKeys : LicenseInfoStart(r, k)
    \/ \E k \in SeqKeys, h \in SeqHWIDs : RequestResetStart(r, k, h)

StepClient(r) ==
    \/ StepApi(r)
    \/ LicenseInfoRead(r)
    \/ RequestResetAdd(r)
    \/ RequestResetAddFault(r)
    \/ RequestResetLog(r)

NextClient ==
    \/ nreq < MaxClientRequests /\ StartClient("r1")
    \/ StepClient("r1")
    \/ Tick

SpecClient == InitSeq /\ [][NextClient]_vars

\* ---------------------------------------------------------------- C27
\* C27: when a request-hwid-reset call has answered REQUESTED, the store holds
\* a pending reset request with the identifier the answer carries, made for
\* the license and the hwid of the call.
C27_RequestedIsStored ==
    \A r \in Slots :
        (req[r].op = "requestReset" /\ req[r].pc = "done" /\ req[r].resp = "REQUESTED")
        => \E q \in hwidRequests :
              /\ q.id = req[r].id
              /\ q.license = req[r].key /\ q.hwid = req[r].hwid
              /\ q.status = "pending"

\* ---------------------------------------------------------------- C30
StatusAnswers == {"Status: EXPIRED", "Status: ACTIVE", "Status: INACTIVE"}

\* C30: while the stored settings have apiEnabled false, a validate or
\* register request answers API_DISABLED or FAILED, a license-info request
\* answers no license status, and no reset request is added to the store.
C30_ApiGate ==
    /\ [](\A r \in Slots :
            (StoredDisabled /\ Api(r) /\ req[r].pc = "done")
            => req[r].resp \in {"API_DISABLED", "FAILED"})
    /\ [](\A r \in Slots :
            (StoredDisabled /\ req[r].op = "licenseInfo" /\ req[r].pc = "done")
            => req[r].resp \notin StatusAnswers)
    /\ [][StoredDisabled => hwidRequests' \subseteq hwidRequests]_vars

\* ---------------------------------------------------------------- one key, deleted and created again
\* K1 exists without expiry; a device validates or registers on it while the
\* admin deletes it and creates it again
InitExpiry ==
    /\ InitCommon
    /\ licenses \in {[k \in {"K1"} |-> l] :
                       l \in {NewLicense(None, 1), RegisterUpdate(NewLicense(None, 1), "H1", 1)}}
    /\ banlist = <<>>
    /\ settings = Some([apiEnabled |-> Some(TRUE)])

StartExpiry(r) ==
    \/ ValidateStart(r, "K1", "H1")
    \/ RegisterStart(r, "K1", "H1")
    \/ DeleteStart(r, "K1")
    \/ \E e \in Expiries : GenerateStart(r, "K1", e)

StepExpiry(r) ==
    \/ StepApi(r)
    \/ DeleteLicense(r)
    \/ DeleteLog(r)
    \/ GenerateLicense(r)
    \/ GenerateSave(r)
    \/ GenerateLog(r)

NextExpiry ==
    \/ nreq < MaxExpiryRequests /\ \E r \in Slots : StartExpiry(r)
    \/ \E r \in Slots : StepExpiry(r)
    \/ Tick

SpecExpiry == InitExpiry /\ [][NextExpiry]_vars

\* ---------------------------------------------------------------- C28
\* C28: no step of a validate or register request changes the expiry of a
\* license record that exists before and after the step.
C28_ExpiryStable ==
    [][\A r \in Slots :
          (Api(r) /\ Steps(r))
          => \A k \in DOMAIN licenses \cap DOMAIN licenses' :
                licenses'[k].expiry = licenses[k].expiry
    ]_vars

\* ---------------------------------------------------------------- C29
\* C29: a record without expiry is not expired at any time; a record with an
\* expiry is not expired at the time of its expiry and before, and is expired
\* at every later time; validate and register answer accordingly for the
\* record and the time they read; and the passing of time writes nothing.
C29_StrictExpiry ==
    /\ [](\A k \in DOMAIN licenses : \A t \in Times :
            isLicenseExpired(licenses[k], t)
               <=> (licenses[k].expiry # None /\ t > licenses[k].expiry[1]))
    /\ [][\A r \in Slots :
            (Api(r) /\ ReadsLicense(r) /\ Exists(req[r].key))
            => LET e == licenses[req[r].key].expiry
               IN  /\ (e = None \/ (e # None /\ now <= e[1])) => req'[r].resp # "EXPIRED"
                   /\ (e # None /\ now > e[1]) => req'[r].resp = "EXPIRED"
        ]_vars
    /\ [][now' # now => store' = store]_vars

\* at the time of its expiry a bound license was validated as VALID; the clock
\* has moved on since, nothing was written, and a second validate has been
\* answered EXPIRED
C29_Witness ==
    /\ Done("r1", "validate", "EXPIRED")
    /\ nreq = 2
    /\ Exists(req["r1"].key)
    /\ licenses[req["r1"].key].expiry = Some(1)
    /\ licenses[req["r1"].key].lastValidated = Some(1)
    /\ now = 2
    /\ CopiesIn([action |-> "API_VALIDATE", license |-> req["r1"].key, hwid |-> "H1"], activityLog) = 2

\* ---------------------------------------------------------------- every kind of settings record
\* settings/general is written outside this program: it may be missing, hold
\* apiEnabled true or false, or hold other fields and no apiEnabled
SettingsRecords == {None, Some([apiEnabled |-> None]),
                    Some([apiEnabled |-> Some(TRUE)]), Some([apiEnabled |-> Some(FALSE)])}

InitSettings ==
    /\ InitCommon
    /\ licenses \in {f \in InitLicenses : \A k \in DOMAIN f : f[k].expiry = None}
    /\ banlist = <<>>
    /\ settings \in SettingsRecords

NextSettings ==
    \/ nreq < MaxSettingsRequests /\ StartFault("r1")
    \/ StepApi("r1")
    \/ Tick

SpecSettings == InitSettings /\ [][NextSettings]_vars

\* ---------------------------------------------------------------- C31
\* C31: a validate or register request is answered API_DISABLED only when the
\* stored settings record holds apiEnabled false: not when no settings record
\* is stored, and not when the stored record has no apiEnabled field.
C31_DefaultsWhenAbsent ==
    \A r \in Slots :
        (Api(r) /\ req[r].pc = "done" /\ req[r].resp = "API_DISABLED") => StoredDisabled

\* ---------------------------------------------------------------- POST /admin/bulk-generate
\* if (count > 100) return res.send('... Maximum 100 licenses at once! ...')
BulkLimit == 100

\* what the form may post as count: nothing (or no number), or a number
CountInputs == {None, Some(0), Some(0 - 1), Some(1), Some(2), Some(BulkLimit - 1),
                Some(BulkLimit), Some(BulkLimit + 1)}

\* const count = parseInt(req.body.count) || 1: NaN and 0 become 1
ParseCount(c) == IF c = None \/ c[1] = 0 THEN 1 ELSE c[1]

\* variant: the limit itself is refused (count >= 100)
BulkTooMany_AtLimit(count) == count >= BulkLimit

BulkTooMany(count) == count > BulkLimit

\* generateSecureLicenseKey(prefix): 8 random bytes; taken here to be a key
\* no stored record has
NewKey == "LIC-" \o ToString(Cardinality(DOMAIN licenses) + 1)

BulkStart(r, c) ==
    /\ IF ~requireLogin
         THEN Arrive(r, [IdleReq EXCEPT !.op = "bulk", !.pc = "done", !.resp = "LOGIN"])
       ELSE IF BulkTooMany(ParseCount(c))
         THEN Arrive(r, [IdleReq EXCEPT !.op = "bulk", !.count = ParseCount(c),
                                        !.pc = "done", !.resp = "TOO_MANY"])
       ELSE Arrive(r, [IdleReq EXCEPT !.op = "bulk", !.count = ParseCount(c),
                                      !.pc = IF 0 < ParseCount(c) THEN "save" ELSE "log"])
    /\ UNCHANGED <<store, session, now>>

\* one turn of the loop: await saveLicense(license, licenseData); licenses.push(license)
BulkSave(r) ==
    /\ At(r, "bulk", "save")
    /\ saveLicense(NewKey, NewLicense(None, now))
    /\ req' = [req EXCEPT ![r].list = Append(@, NewKey),
                          ![r].pc = IF Len(req[r].list) + 1 < req[r].count THEN "save" ELSE "log"]
    /\ UNCHANGED <<banlist, settings, hwidRequests, activityLog, session, now, nreq>>

\* await logActivity('BULK_GENERATE', ...); res.redirect('/admin')
BulkLog(r) ==
    /\ At(r, "bulk", "log")
    /\ logActivity("BULK_GENERATE", "", "")
    /\ req' = [req EXCEPT ![r].pc = "done", ![r].resp = "REDIRECT"]
    /\ UNCHANGED <<licenses, banlist, settings, hwidRequests, session, now, nreq>>

InitBulk ==
    /\ InitCommon
    /\ licenses \in {f \in InitLicenses : \A k \in DOMAIN f : f[k].expiry = None}
    /\ banlist = <<>>
    /\ settings = Some([apiEnabled |-> Some(TRUE)])

NextBulk ==
    \/ nreq < MaxBulkRequests /\ \E c \in CountInputs : BulkStart("r1", c)
    \/ BulkSave("r1")
    \/ BulkLog("r1")

SpecBulk == InitBulk /\ [][NextBulk]_vars

\* ---------------------------------------------------------------- C32
BulkLogged == CopiesIn([action |-> "BULK_GENERATE", license |-> "", hwid |-> ""], activityLog)

\* C32: a bulk-generate request creates at most one record per step and at
\* most 100 in all, and changes no record that exists; a request with a count
\* above 100 is answered on arrival, creates no record and logs nothing; a
\* request with a count from 1 to 100 that has answered has created exactly
\* count records, each unbound, without expiry and with an empty history.
C32_BulkCapped ==
    /\ [][\A r \in Slots :
            (req[r].op = "bulk" /\ Steps(r))
            => /\ \A k \in DOMAIN licenses : k \in DOMAIN licenses' /\ licenses'[k] = licenses[k]
               /\ Cardinality(DOMAIN licenses')
                     = Cardinality(DOMAIN licenses) + (IF req[r].pc = "save" THEN 1 ELSE 0)
               /\ Len(req'[r].list)
                     = Len(req[r].list) + (IF req[r].pc = "save" THEN 1 ELSE 0)
        ]_vars
    /\ [][\A r \in Slots :
            (req'[r] # req[r] /\ req'[r].op = "bulk" /\ req'[r].count > 100)
            => /\ req'[r].pc = "done" /\ req'[r].list = <<>>
               /\ store' = store
        ]_vars
    /\ [](\A r \in Slots :
            req[r].op = "bulk"
            => /\ Len(req[r].list) <= 100
               /\ req[r].count > 100 => req[r].pc = "done" /\ req[r].list = <<>>)
    /\ [](\A r \in Slots :
            (req[r].op = "bulk" /\ req[r].pc = "done" /\ req[r].resp # "LOGIN"
                /\ 1 <= req[r].count /\ req[r].count <= 100)
            => /\ Len(req[r].list) = req[r].count
               /\ NoDuplicates(req[r].list)
               /\ \A i \in 1..Len(req[r].list) :
                     /\ Exists(req[r].list[i])
                     /\ licenses[req[r].list[i]].hwid = ""
                     /\ licenses[req[r].list[i]].expiry = None
                     /\ licenses[req[r].list[i]].history = <<>>)

\* a request for 100 licenses has answered: 100 records are new in the store
\* and one BULK_GENERATE entry is logged
C32_Witness ==
    /\ req["r1"].op = "bulk" /\ req["r1"].pc = "done" /\ req["r1"].count = 100
    /\ Len(req["r1"].list) = 100
    /\ Cardinality(DOMAIN licenses \ Keys) = 100
    /\ BulkLogged = 1

\* ---------------------------------------------------------------- C33
\* C33: a register request whose write of the record failed has not answered
\* SUCCESS, and a validate request whose write of the validation stamp failed
\* has not answered VALID.
C33_SuccessIsPersisted ==
    \A r \in Slots :
        /\ (req[r].op = "register" /\ req[r].fault = "save") => ~Done(r, "register", "SUCCESS")
        /\ (req[r].op = "validate" /\ req[r].fault = "save") => ~Done(r, "validate", "VALID")

\* ---------------------------------------------------------------- C34
\* C34: a step of an approve request changes a license record only if a
\* pending reset request with the request's id is stored and names the
\* request's license; otherwise every license record stays as it was.
C34_ApprovalNeedsRequest ==
    [][\A r \in Slots :
          (req[r].op = "approve" /\ Steps(r) /\ licenses' # licenses)
          => \E q \in hwidRequests :
                q.id = req[r].id /\ q.license = req[r].key /\ q.status = "pending"
      ]_vars

\* ---------------------------------------------------------------- C35
\* C35: a validate or register request whose hardware id is in the stored
\* ban list never answers VALID or SUCCESS and never writes a license record,
\* also when its read of the ban list fails.
C35_BanFailsClosed ==
    /\ [](\A r \in Slots :
            (Api(r) /\ req[r].pc = "done" /\ StoredBanned(req[r].hwid))
            => req[r].resp \notin {"VALID", "SUCCESS"})
    /\ [][\A r \in Slots :
            (Api(r) /\ Steps(r) /\ StoredBanned(req[r].hwid)) => licenses' = licenses
         ]_vars

\* ---------------------------------------------------------------- C36
\* C36: a step of a validate or register request that changes the licenses,
\* the ban list or the reset requests is the step in which the request
\* answers VALID (validate) or SUCCESS (register): a request that answers
\* anything else has written none of them.
C36_RejectionsDoNotWrite ==
    [][\A r \in Slots :
          (req'[r] # req[r] /\ req'[r].op \in {"validate", "register"}
              /\ <<licenses, banlist, hwidRequests>>' # <<licenses, banlist, hwidRequests>>)
          => /\ req'[r].pc = "done"
             /\ req'[r].resp = (IF req'[r].op = "validate" THEN "VALID" ELSE "SUCCESS")
      ]_vars

\* a validate request was rejected for the wrong device and a register request
\* for a license bound to another device; both are in the activity log
C36_Witness ==
    \E r, s \in Slots :
        /\ Done(r, "validate", "HWID_MISMATCH")
        /\ Done(s, "register", "ALREADY_REGISTERED")
        /\ BagCardinality(activityLog) >= 2

\* ---------------------------------------------------------------- POST /admin/login, GET /admin/logout
\* CONFIG.ADMIN_PASSWORD = process.env.ADMIN_PASSWORD
ADMIN_PASSWORD == "secret"

\* what a login form may post: the configured value, another one, nothing
Usernames == {ADMIN_USERNAME, "guest", ""}
Passwords == {ADMIN_PASSWORD, "wrong", ""}

\* if (username === CONFIG.ADMIN_USERNAME && password === CONFIG.ADMIN_PASSWORD)
\*     req.session.user = CONFIG.ADMIN_USERNAME
LoginStart(r, username, password) ==
    /\ Arrive(r, [IdleReq EXCEPT !.op = "login", !.username = username, !.password = password,
                     !.pc = IF username = ADMIN_USERNAME /\ password = ADMIN_PASSWORD
                              THEN "logSuccess" ELSE "logFailed"])
    /\ session' = IF username = ADMIN_USERNAME /\ password = ADMIN_PASSWORD
                    THEN ADMIN_USERNAME ELSE session
    /\ UNCHANGED <<store, now>>

\* await logActivity('ADMIN_LOGIN_SUCCESS', ...); return res.redirect('/admin')
LoginLogSuccess(r) ==
    /\ At(r, "login", "logSuccess")
    /\ logActivity("ADMIN_LOGIN_SUCCESS", "", "")
    /\ Respond(r, "REDIRECT")
    /\ UNCHANGED <<licenses, banlist, settings, hwidRequests, session, now, nreq>>

\* await logActivity('ADMIN_LOGIN_FAILED', ...); res.send('... Invalid credentials! ...')
LoginLogFailed(r) ==
    /\ At(r, "login", "logFailed")
    /\ logActivity("ADMIN_LOGIN_FAILED", "", "")
    /\ Respond(r, "INVALID")
    /\ UNCHANGED <<licenses, banlist, settings, hwidRequests, session, now, nreq>>

\* GET /admin/logout (no requireLogin)
LogoutStart(r) ==
    /\ Arrive(r, [IdleReq EXCEPT !.op = "logout", !.pc = "log"])
    /\ UNCHANGED <<store, session, now>>

\* await logActivity('ADMIN_LOGOUT', ...)
LogoutLog(r) ==
    /\ At(r, "logout", "log")
    /\ logActivity("ADMIN_LOGOUT", "", "")
    /\ Goto(r, "destroy")
    /\ UNCHANGED <<licenses, banlist, settings, hwidRequests, session, now, nreq>>

\* req.session.destroy(() => res.redirect('/admin/login'))
LogoutDestroy(r) ==
    /\ At(r, "logout", "destroy")
    /\ session' = ""
    /\ Respond(r, "LOGIN")
    /\ UNCHANGED <<store, now, nreq>>

\* ---------------------------------------------------------------- one browser session, from before the first login
\* K1 is bound to H1, nothing is banned, nobody is logged in
InitAdmin ==
    /\ hwidRequests = {}
    /\ activityLog = EmptyBag
    /\ session = ""
    /\ now = 1
    /\ nreq = 0
    /\ req = [r \in Slots |-> IdleReq]
    /\ licenses \in {f \in InitLicenses : DOMAIN f = {"K1"} /\ f["K1"].hwid = "H1"
                                            /\ f["K1"].expiry = None}
    /\ banlist = <<>>
    /\ settings = Some([apiEnabled |-> Some(TRUE)])

StartAdmin(r) ==
    \/ \E username \in Usernames, password \in Passwords : LoginStart(r, username, password)
    \/ LogoutStart(r)
    \/ GenerateStart(r, "K2", None)
    \/ BulkStart(r, Some(2))
    \/ DeleteStart(r, "K1")
    \/ ResetStart(r, "K1")
    \/ \E id \in RequestIds : ApproveStart(r, id, "K1")
    \/ \E id \in RequestIds : DenyStart(r, id)
    \/ BanStart(r, "H1")
    \/ UnbanStart(r, "H1")
    \/ RequestResetStart(r, "K1", "H1")

StepAdmin(r) ==
    \/ LoginLogSuccess(r)
    \/ LoginLogFailed(r)
    \/ LogoutLog(r)
    \/ LogoutDestroy(r)
    \/ GenerateLicense(r)
    \/ GenerateSave(r)
    \/ GenerateLog(r)
    \/ BulkSave(r)
    \/ BulkLog(r)
    \/ DeleteLicense(r)
    \/ DeleteLog(r)
    \/ ResetLicense(r)
    \/ ResetSave(r)
    \/ ResetLog(r)
    \/ StepBan(r)
    \/ StepReset(r)

NextAdmin ==
    \/ nreq < MaxAdminRequests /\ StartAdmin("r1")
    \/ StepAdmin("r1")

SpecAdmin == InitAdmin /\ [][NextAdmin]_vars

\* ---------------------------------------------------------------- C37
AdminMutations == {"generate", "bulk", "delete", "reset", "approve", "deny", "ban", "unban"}

\* C37: (one session, requests one after the other) an admin mutation that
\* arrives while the session's user is not the admin is sent to the login page
\* at once, and no step of an admin mutation changes the store unless the
\* session's user is the admin; the session's user becomes the admin only in
\* the arrival of a login whose username and password are both the configured
\* ones, and stops being the admin only in a logout, after which it is not
\* the admin.
C37_AdminNeedsSession ==
    /\ [][\A r \in Slots :
            (req'[r] # req[r] /\ req'[r].op \in AdminMutations)
            => /\ store' # store => session = ADMIN_USERNAME
               /\ (req[r].pc \in {"idle", "done"} /\ session # ADMIN_USERNAME)
                     => req'[r].pc = "done" /\ req'[r].resp = "LOGIN" /\ store' = store
         ]_vars
    /\ [][(session' = ADMIN_USERNAME /\ session # ADMIN_USERNAME)
            => \E r \in Slots :
                  /\ req'[r] # req[r] /\ req'[r].op = "login"
                  /\ req'[r].username = ADMIN_USERNAME /\ req'[r].password = ADMIN_PASSWORD
         ]_vars
    /\ [][(session = ADMIN_USERNAME /\ session' # ADMIN_USERNAME)
            => \E r \in Slots : req[r].op = "logout" /\ Responds(r)
         ]_vars
    /\ [](\A r \in Slots : (req[r].op = "logout" /\ req[r].pc = "done")
                              => session # ADMIN_USERNAME)

\* after a login and a logout, a ban request was sent to the login page and
\* the ban list is still empty
C37_Witness ==
    /\ Done("r1", "ban", "LOGIN")
    /\ banlist = <<>>
    /\ CopiesIn([action |-> "ADMIN_LOGIN_SUCCESS", license |-> "", hwid |-> ""], activityLog) = 1
    /\ CopiesIn([action |-> "ADMIN_LOGOUT", license |-> "", hwid |-> ""], activityLog) = 1

\* ---------------------------------------------------------------- C38
\* the last thing that happened to the binding of k is a reset
LastIsReset(k) ==
    /\ Exists(k)
    /\ licenses[k].history # <<>>
    /\ licenses[k].history[Len(licenses[k].history)].action
          \in {"HWID_RESET_BY_ADMIN", "HWID_RESET_APPROVED"}

\* the device the last registration of k bound, "" if there was none
LastRegistered(k) ==
    LET h == licenses[k].history
        regs == {i \in DOMAIN h : h[i].action = "REGISTER"}
    IN  IF regs = {} THEN ""
        ELSE h[CHOOSE i \in regs : \A j \in regs : j <= i].details

\* k was bound to a and has been reset since, and not registered again
ResetFrom(k, a) == LastIsReset(k) /\ a # "" /\ LastRegistered(k) = a

\* request r, at or after its read of the record, is not past an expiry check it would fail
NotExpiredAtRead(r) ==
    req[r].pc = "getLicense" => ~ExpiredAt(req[r].key, now)

\* C38: (requests one after the other; the requests are those that have
\* passed the API and ban checks) once a reset-hwid or an approved reset of k,
\* bound to A, has completed, and until k is registered again: k is unbound;
\* register(k, B), k not expired, B not bound to another license, answers
\* nothing but SUCCESS and binds k to B; validate(k, A), k not expired,
\* answers HWID_MISMATCH; register(k2, A) on another unbound, not expired
\* license k2 answers nothing but SUCCESS and binds k2 to A. A reset-hwid for
\* a key without a record changes no license record and creates none.
C38_ResetFreesBothSides ==
    /\ [](\A k \in Keys : LastIsReset(k) => licenses[k].hwid = "")
    /\ [][\A r \in Slots, a \in HWIDs :
            (At(r, "register", req[r].pc) /\ req[r].pc \in {"getLicense", "scan", "save"}
                /\ Steps(r) /\ ResetFrom(req[r].key, a) /\ NotExpiredAtRead(r)
                /\ ~\E k \in DOMAIN licenses : k # req[r].key /\ licenses[k].hwid = req[r].hwid)
            => /\ req'[r].pc = "done" => req'[r].resp = "SUCCESS"
               /\ req[r].pc = "save" => req'[r].pc = "done" /\ licenses'[req[r].key].hwid = req[r].hwid
         ]_vars
    /\ [][\A r \in Slots :
            (At(r, "validate", "getLicense") /\ Steps(r)
                /\ ResetFrom(req[r].key, req[r].hwid) /\ NotExpiredAtRead(r))
            => req'[r].pc = "done" /\ req'[r].resp = "HWID_MISMATCH"
         ]_vars
    /\ [][\A r \in Slots, k \in Keys :
            (At(r, "register", req[r].pc) /\ req[r].pc \in {"getLicense", "scan", "save"}
                /\ Steps(r) /\ ResetFrom(k, req[r].hwid) /\ k # req[r].key
                /\ Exists(req[r].key) /\ licenses[req[r].key].hwid = "" /\ NotExpiredAtRead(r))
            => /\ req'[r].pc = "done" => req'[r].resp = "SUCCESS"
               /\ req[r].pc = "save" => req'[r].pc = "done" /\ licenses'[req[r].key].hwid = req[r].hwid
         ]_vars
    /\ [][\A r \in Slots :
            (req[r].op = "reset" /\ Steps(r) /\ ~Exists(req[r].key))
            => licenses' = licenses /\ req'[r].pc = "done"
         ]_vars

\* K1, bound to H1, was reset, and H1 has registered on K2 since
C38_Witness ==
    /\ ResetFrom("K1", "H1")
    /\ Done("r1", "register", "SUCCESS") /\ req["r1"].key = "K2" /\ req["r1"].hwid = "H1"
    /\ BoundTo("K2", "H1")

\* ---------------------------------------------------------------- C39
\* C39: no step of a license-info request changes the store; the request
\* answers that the license was not found when the key is missing or has no
\* record, and otherwise EXPIRED when the record is expired, else ACTIVE when
\* its hwid is not empty, else INACTIVE.
C39_LicenseInfoPureRead ==
    [][\A r \in Slots :
          (req'[r] # req[r] /\ req'[r].op = "licenseInfo")
          => /\ store' = store
             /\ req'[r].pc = "done"
                  => req'[r].resp =
                        IF req'[r].key = "" \/ ~Exists(req'[r].key) THEN "License not found."
                        ELSE IF ExpiredAt(req'[r].key, now) THEN "Status: EXPIRED"
                        ELSE IF licenses[req'[r].key].hwid # "" THEN "Status: ACTIVE"
                        ELSE "Status: INACTIVE"
      ]_vars

\* a license that is bound and expired was reported as EXPIRED
C39_Witness ==
    \E r \in Slots :
        /\ Done(r, "licenseInfo", "Status: EXPIRED")
        /\ Exists(req[r].key) /\ licenses[req[r].key].hwid # ""

====
